---- MODULE Spec2Model ----
(***************************************************************************)
(* A model of Rangy's CSS class applier (rangy-cssclassapplier) and of the *)
(* range geometry of its commands module (rangy-commands).                 *)
(*                                                                         *)
(* The document is an arena of nodes: dom is a sequence of node records,   *)
(* a node's identity is its index, 0 is null.  Offsets are the DOM's       *)
(* (0-based); childNodes[k] is kids[k + 1].  A range is the record         *)
(* [sc, so, ec, eo] of a Rangy range object, which the operations rewrite  *)
(* in place.  Text data is a sequence of character codes; every character  *)
(* of an initial document is distinct, so that a lost, duplicated or       *)
(* reordered character shows in the flattened text.                        *)
(***************************************************************************)
EXTENDS Integers, Sequences, FiniteSets, TLC

VARIABLES dom, range, applier, log, text0, dom0, probe, bx, call, sel, commandsByName

vars == <<dom, range, applier, log, text0, dom0, probe, bx, call, sel, commandsByName>>

NULL == 0

(***************************************************************************)
(* Bounds of the model.                                                    *)
(***************************************************************************)
\* children of the root in an initial document
MaxKids == 2
\* operations performed on one range object
MaxOps == 2
\* calls of registerCommand and getCommand in one run
MaxCalls == 3
\* characters of a command name
MaxNameLen == 2
\* children of the root in an initial document of the block-extend runs
MaxBlockKids == 3

(***************************************************************************)
(* Nodes and the host's tree primitives.                                   *)
(***************************************************************************)
\* a removed node: nothing refers to it again
Gone == [kind |-> "gone", parent |-> NULL, kids |-> <<>>, data |-> <<>>,
         tag |-> "", className |-> <<>>, classAttr |-> FALSE, id |-> 0,
         attrs |-> {}]

TextNode(parent, data) ==
    [kind |-> "text", parent |-> parent, kids |-> <<>>, data |-> data,
     tag |-> "", className |-> <<>>, classAttr |-> FALSE, id |-> 0,
     attrs |-> {}]

ElementNode(parent, tag) ==
    [kind |-> "elem", parent |-> parent, kids |-> <<>>, data |-> <<>>,
     tag |-> tag, className |-> <<>>, classAttr |-> FALSE, id |-> 0,
     attrs |-> {}]

Nodes(d) == DOMAIN d

\* the arena as the sequence of its node records
Arena(f) == SubSeq(f, 1, Len(f))

isCharacterDataNode(d, n) == d[n].kind = "text"

IsElement(d, n) == d[n].kind = "elem"

\* position (1-based) of x in the sequence s, 0 when absent
RECURSIVE PosFrom(_, _, _)
PosFrom(s, x, i) ==
    IF i > Len(s) THEN 0
    ELSE IF s[i] = x THEN i ELSE PosFrom(s, x, i + 1)

Pos(s, x) == PosFrom(s, x, 1)

\* dom.getNodeIndex: the number of previous siblings
getNodeIndex(d, n) ==
    IF d[n].parent = NULL THEN 0 ELSE Pos(d[d[n].parent].kids, n) - 1

\* dom.getNodeLength: characters of a text node, children of any other
getNodeLength(d, n) ==
    IF isCharacterDataNode(d, n) THEN Len(d[n].data) ELSE Len(d[n].kids)

\* childNodes[k], NULL (undefined) out of range
ChildAt(d, n, k) ==
    IF k >= 0 /\ k < Len(d[n].kids) THEN d[n].kids[k + 1] ELSE NULL

previousSibling(d, n) ==
    IF d[n].parent = NULL THEN NULL
    ELSE ChildAt(d, d[n].parent, getNodeIndex(d, n) - 1)

nextSibling(d, n) ==
    IF d[n].parent = NULL THEN NULL
    ELSE ChildAt(d, d[n].parent, getNodeIndex(d, n) + 1)

firstChild(d, n) == ChildAt(d, n, 0)

lastChild(d, n) == ChildAt(d, n, Len(d[n].kids) - 1)

Without(s, x) == SelectSeq(s, LAMBDA y : y # x)

InsertAt(s, k, x) == SubSeq(s, 1, k) \o <<x>> \o SubSeq(s, k + 1, Len(s))

\* Node.removeChild: n leaves its parent and keeps its own subtree
Detach(d, n) ==
    IF d[n].parent = NULL THEN d
    ELSE [d EXCEPT ![d[n].parent].kids = Without(@, n), ![n].parent = NULL]


\* Node.insertBefore(n, ref): n is first removed from where it is;
\* ref = NULL appends
InsertBefore(d, p, n, ref) ==
    LET d1 == Detach(d, n)
        k  == IF ref = NULL THEN Len(d1[p].kids) ELSE Pos(d1[p].kids, ref) - 1
    IN  [d1 EXCEPT ![p].kids = InsertAt(@, k, n), ![n].parent = p]

AppendChild(d, p, n) == InsertBefore(d, p, n, NULL)

\* dom.insertAfter(node, precedingNode)
insertAfter(d, n, preceding) ==
    LET nxt == nextSibling(d, preceding)
        p   == d[preceding].parent
    IN  IF nxt # NULL THEN InsertBefore(d, p, n, nxt) ELSE AppendChild(d, p, n)

\* a node created by the program gets the next identity
NewId(d) == Len(d) + 1

RECURSIVE getRootContainer(_, _)
getRootContainer(d, n) ==
    IF d[n].parent = NULL THEN n ELSE getRootContainer(d, d[n].parent)

\* the ancestors of n, nearest first, n itself included when self
RECURSIVE AncestorsOf(_, _)
AncestorsOf(d, n) ==
    IF d[n].parent = NULL THEN <<>>
    ELSE <<d[n].parent>> \o AncestorsOf(d, d[n].parent)

isAncestorOf(d, a, n) == \E i \in DOMAIN AncestorsOf(d, n) : AncestorsOf(d, n)[i] = a

isOrIsAncestorOf(d, a, n) == a = n \/ isAncestorOf(d, a, n)

\* the root of the document is the one attached node without a parent
Root == 1

Attached(d, n) == d[n].kind # "gone" /\ getRootContainer(d, n) = Root

\* the nodes of the subtree of n in document order (pre-order)
RECURSIVE DocOrder(_, _)
RECURSIVE DocOrderKids(_, _, _)
DocOrder(d, n) == <<n>> \o DocOrderKids(d, d[n].kids, 1)
DocOrderKids(d, ks, i) ==
    IF i > Len(ks) THEN <<>>
    ELSE DocOrder(d, ks[i]) \o DocOrderKids(d, ks, i + 1)

TextNodesOf(d, n) == SelectSeq(DocOrder(d, n), LAMBDA x : isCharacterDataNode(d, x))

RECURSIVE Concat(_, _, _)
Concat(d, ns, i) ==
    IF i > Len(ns) THEN <<>> ELSE d[ns[i]].data \o Concat(d, ns, i + 1)

\* Node.removeChild of a node that is dropped for good, with its subtree
RemoveChild(d, n) ==
    LET sub == {DocOrder(d, n)[i] : i \in DOMAIN DocOrder(d, n)}
        d1  == Detach(d, n)
    IN  Arena([x \in DOMAIN d1 |-> IF x \in sub THEN Gone ELSE d1[x]])

\* the flattened text: all text-node data in document order
FlatText(d) == Concat(d, TextNodesOf(d, Root), 1)

(***************************************************************************)
(* Class names.  className is a string over the class names "c" and "x"    *)
(* (each one character long) and the blank " ".                            *)
(***************************************************************************)
\* index of the leftmost match of (?:^|\s)cssClass(?:\s|$), 0 for none
RECURSIVE ClassMatchFrom(_, _, _)
ClassMatchFrom(s, cssClass, i) ==
    IF i > Len(s) THEN 0
    ELSE IF /\ s[i] = cssClass
            /\ (i = 1 \/ s[i - 1] = " ")
            /\ (i = Len(s) \/ s[i + 1] = " ")
         THEN i
         ELSE ClassMatchFrom(s, cssClass, i + 1)

hasClass(d, el, cssClass) ==
    d[el].className # <<>> /\ ClassMatchFrom(d[el].className, cssClass, 1) # 0

addClass(d, el, cssClass) ==
    IF d[el].className # <<>>
    THEN IF ~hasClass(d, el, cssClass)
         THEN [d EXCEPT ![el].className = @ \o <<" ", cssClass>>]
         ELSE d
    ELSE [d EXCEPT ![el].className = <<cssClass>>, ![el].classAttr = TRUE]

\* String.replace hands the replacer (matched, offset, string), the pattern
\* having no capturing group: the match is replaced by " " when its offset
\* is not 0 and by "" when it is
removeClass(d, el, cssClass) ==
    LET s == d[el].className
        i == ClassMatchFrom(s, cssClass, 1)
        first == IF i = 1 THEN 1 ELSE i - 1
        last  == IF i = Len(s) THEN i ELSE i + 1
    IN  IF s = <<>> \/ i = 0 THEN d
        ELSE [d EXCEPT ![el].className =
                 SubSeq(s, 1, first - 1)
                 \o (IF first - 1 > 0 THEN <<" ">> ELSE <<>>)
                 \o SubSeq(s, last + 1, Len(s))]

\* className.split(/\s+/): the names between runs of blanks; a leading or a
\* trailing run leaves an empty name
RECURSIVE SplitBlanks(_, _, _)
SplitBlanks(s, i, cur) ==
    IF i > Len(s) THEN <<cur>>
    ELSE IF s[i] = " "
         THEN IF i > 1 /\ s[i - 1] = " "
              THEN SplitBlanks(s, i + 1, cur)
              ELSE <<cur>> \o SplitBlanks(s, i + 1, "")
         ELSE SplitBlanks(s, i + 1, s[i])

ClassRank(name) == IF name = "" THEN 0 ELSE IF name = "c" THEN 1 ELSE 2

RECURSIVE InsertSorted(_, _)
InsertSorted(sorted, name) ==
    IF sorted = <<>> THEN <<name>>
    ELSE IF ClassRank(name) < ClassRank(Head(sorted))
         THEN <<name>> \o sorted
         ELSE <<Head(sorted)>> \o InsertSorted(Tail(sorted), name)

RECURSIVE SortNames(_)
SortNames(names) ==
    IF names = <<>> THEN <<>>
    ELSE InsertSorted(SortNames(Tail(names)), Head(names))

RECURSIVE JoinBlank(_)
JoinBlank(names) ==
    IF names = <<>> THEN <<>>
    ELSE (IF Head(names) = "" THEN <<>> ELSE <<Head(names)>>)
         \o (IF Len(names) > 1 THEN <<" ">> ELSE <<>>)
         \o JoinBlank(Tail(names))

sortClassName(className) == JoinBlank(SortNames(SplitBlanks(className, 1, "")))

getSortedClassName(d, el) == sortClassName(d[el].className)

haveSameClasses(d, el1, el2) == getSortedClassName(d, el1) = getSortedClassName(d, el2)

(***************************************************************************)
(* Attributes.  An element's attributes are class (when classAttr), id     *)
(* (when id # 0) and the names in attrs, each with one fixed value.        *)
(***************************************************************************)
AttributeCount(d, el) ==
    Cardinality(d[el].attrs) + (IF d[el].classAttr THEN 1 ELSE 0)
    + (IF d[el].id # 0 THEN 1 ELSE 0)

\* getNamedItem of a missing attribute is null and reading it throws; the
\* model answers FALSE there, elements of equal attribute count that differ
\* in one name not being mergeable in any case
elementsHaveSameNonClassAttributes(d, el1, el2) ==
    /\ AttributeCount(d, el1) = AttributeCount(d, el2)
    /\ d[el1].attrs \subseteq d[el2].attrs
    /\ (d[el1].id # 0 => d[el1].id = d[el2].id)

\* exceptions: the attribute names that do not count
elementHasNonClassAttributes(d, el, exceptions) ==
    (d[el].attrs \ exceptions) # {} \/ d[el].id # 0

areElementsMergeable(d, el1, el2) ==
    /\ d[el1].tag = d[el2].tag
    /\ haveSameClasses(d, el1, el2)
    /\ elementsHaveSameNonClassAttributes(d, el1, el2)

(***************************************************************************)
(* Boundary points and ranges (Rangy core: dom.comparePoints and the       *)
(* methods of a range object).                                             *)
(***************************************************************************)
\* dom.getClosestAncestorIn(node, ancestor, selfIsAncestor = true): the child
\* of ancestor that is node or holds it, NULL when ancestor does not hold node
RECURSIVE getClosestAncestorIn(_, _, _)
getClosestAncestorIn(d, n, ancestor) ==
    IF d[n].parent = NULL THEN NULL
    ELSE IF d[n].parent = ancestor THEN n
    ELSE getClosestAncestorIn(d, d[n].parent, ancestor)

\* the nearest node that is or holds both a and b
RECURSIVE getCommonAncestor(_, _, _)
getCommonAncestor(d, a, b) ==
    IF isOrIsAncestorOf(d, a, b) THEN a
    ELSE IF d[a].parent = NULL THEN NULL
    ELSE getCommonAncestor(d, d[a].parent, b)

\* dom.comparePoints: -1 before, 0 equal, 1 after, in tree order; the two
\* points share a root
comparePoints(d, nodeA, offsetA, nodeB, offsetB) ==
    IF nodeA = nodeB
    THEN IF offsetA = offsetB THEN 0 ELSE IF offsetA < offsetB THEN -1 ELSE 1
    ELSE IF getClosestAncestorIn(d, nodeB, nodeA) # NULL
    THEN IF offsetA <= getNodeIndex(d, getClosestAncestorIn(d, nodeB, nodeA))
         THEN -1 ELSE 1
    ELSE IF getClosestAncestorIn(d, nodeA, nodeB) # NULL
    THEN IF getNodeIndex(d, getClosestAncestorIn(d, nodeA, nodeB)) < offsetB
         THEN -1 ELSE 1
    ELSE LET root   == getCommonAncestor(d, nodeA, nodeB)
             childA == getClosestAncestorIn(d, nodeA, root)
             childB == getClosestAncestorIn(d, nodeB, root)
         IN  IF getNodeIndex(d, childA) < getNodeIndex(d, childB) THEN -1 ELSE 1

MkRange(sc, so, ec, eo) == [sc |-> sc, so |-> so, ec |-> ec, eo |-> eo]

collapsed(r) == r.sc = r.ec /\ r.so = r.eo

\* a boundary point of the tree: 0 <= offset <= length of the node
ValidPoint(d, n, o) == Attached(d, n) /\ o >= 0 /\ o <= getNodeLength(d, n)

ValidRange(d, r) ==
    /\ r.sc \in Nodes(d) /\ r.ec \in Nodes(d)
    /\ ValidPoint(d, r.sc, r.so) /\ ValidPoint(d, r.ec, r.eo)
    /\ comparePoints(d, r.sc, r.so, r.ec, r.eo) <= 0

\* range.setStart: an end that is in another tree or before the new start
\* collapses onto it
setStart(d, r, n, o) ==
    IF getRootContainer(d, n) # getRootContainer(d, r.ec)
       \/ comparePoints(d, n, o, r.ec, r.eo) = 1
    THEN MkRange(n, o, n, o)
    ELSE MkRange(n, o, r.ec, r.eo)

\* range.setEnd: a start that is in another tree or after the new end
\* collapses onto it
setEnd(d, r, n, o) ==
    IF getRootContainer(d, n) # getRootContainer(d, r.sc)
       \/ comparePoints(d, n, o, r.sc, r.so) = -1
    THEN MkRange(n, o, n, o)
    ELSE MkRange(r.sc, r.so, n, o)

setEndAfter(d, r, n) == setEnd(d, r, d[n].parent, getNodeIndex(d, n) + 1)

\* range.selectNode
selectNode(d, n) ==
    MkRange(d[n].parent, getNodeIndex(d, n), d[n].parent, getNodeIndex(d, n) + 1)

\* range.isPointInRange
isPointInRange(d, r, n, o) ==
    /\ comparePoints(d, n, o, r.sc, r.so) >= 0
    /\ comparePoints(d, n, o, r.ec, r.eo) <= 0

\* range.containsNode(node): the whole of node lies between the boundaries
containsNode(d, r, n) ==
    /\ comparePoints(d, d[n].parent, getNodeIndex(d, n), r.sc, r.so) >= 0
    /\ comparePoints(d, d[n].parent, getNodeIndex(d, n) + 1, r.ec, r.eo) <= 0

\* dom.splitDataNode(node, index): the data from index on moves to a new
\* text node, inserted after node; answers the tree and the new node
splitDataNode(d, n, index) ==
    LET new == NewId(d)
        d1  == Append([d EXCEPT ![n].data = SubSeq(@, 1, index)],
                      TextNode(NULL, SubSeq(d[n].data, index + 1, Len(d[n].data))))
    IN  [d |-> insertAfter(d1, new, n), node |-> new]

\* range.splitBoundaries: a boundary inside a text node splits the node, the
\* end first; answers the tree and the range
splitBoundaries(d, r) ==
    LET startEndSame == r.sc = r.ec
        \* sp: the start container split at the start offset
        StartSplit(sp) ==
            [d |-> sp.d,
             r |-> IF startEndSame
                   THEN MkRange(sp.node, 0, sp.node, r.eo - r.so)
                   ELSE IF r.ec = sp.d[sp.node].parent
                           /\ r.eo >= getNodeIndex(sp.d, sp.node)
                   THEN MkRange(sp.node, 0, r.ec, r.eo + 1)
                   ELSE MkRange(sp.node, 0, r.ec, r.eo)]
        \* d1: the tree after the end boundary was seen to
        EndDone(d1) ==
            IF isCharacterDataNode(d1, r.sc) /\ r.so > 0 /\ r.so < Len(d1[r.sc].data)
            THEN StartSplit(splitDataNode(d1, r.sc, r.so))
            ELSE [d |-> d1, r |-> r]
    IN  EndDone(IF isCharacterDataNode(d, r.ec) /\ r.eo > 0 /\ r.eo < Len(d[r.ec].data)
                THEN splitDataNode(d, r.ec, r.eo).d ELSE d)

\* the text of textNode that the range selects: the data between the later
\* of the two starts and the earlier of the two ends (selectNodeContents,
\* intersection, toString)
getTextSelectedByRange(d, textNode, r) ==
    LET len == Len(d[textNode].data)
        intersects == /\ comparePoints(d, textNode, 0, r.ec, r.eo) < 0
                      /\ comparePoints(d, textNode, len, r.sc, r.so) > 0
        from == IF r.sc = textNode THEN r.so ELSE 0
        to   == IF r.ec = textNode THEN r.eo ELSE len
    IN  IF intersects THEN SubSeq(d[textNode].data, from + 1, to) ELSE <<>>

rangeSelectsAnyText(d, r, textNode) == getTextSelectedByRange(d, textNode, r) # <<>>

(***************************************************************************)
(* Containment (rangy-commands).                                           *)
(***************************************************************************)
\* isContained names getNodeLength, which the module never binds (it binds
\* dom and getRootContainer only; every other use is dom.getNodeLength).
\* Evaluating the name throws a ReferenceError unless the page that loads the
\* module has a global function of that name: probe.global says which
GlobalGetNodeLength(d, node) ==
    IF probe.global = "bound" THEN getNodeLength(d, node) ELSE -1

\* the answer is "true", "false" or the error thrown while computing pos2
isContained(d, node, r) ==
    LET pos1 == comparePoints(d, node, 0, r.sc, r.so)
        len  == GlobalGetNodeLength(d, node)
    IN  IF len < 0 THEN "ReferenceError"
        ELSE IF /\ getRootContainer(d, node) = getRootContainer(d, r.sc)
                /\ pos1 = 1
                /\ comparePoints(d, node, len, r.ec, r.eo) = -1
             THEN "true" ELSE "false"

\* the answer is "true", "false" or the error isContained throws
RECURSIVE isEffectivelyContained(_, _, _)
RECURSIVE AllChildrenEffectivelyContained(_, _, _, _)
\* a variant without the test for children: the children of a childless node
\* are all effectively contained
isEffectivelyContainedVacuous(d, node, r) ==
    LET contained  == isContained(d, node, r)
        isCharData == isCharacterDataNode(d, node)
    IN  IF contained # "false" THEN contained
        ELSE IF node = r.sc /\ isCharData /\ getNodeLength(d, node) # r.so
             THEN "true"
        ELSE IF node = r.ec /\ isCharData /\ r.eo # 0 THEN "true"
        ELSE AllChildrenEffectivelyContained(d, node, r, 0)

isEffectivelyContained(d, node, r) ==
    LET contained  == isContained(d, node, r)
        isCharData == isCharacterDataNode(d, node)
    IN  IF contained # "false" THEN contained
        ELSE IF node = r.sc /\ isCharData /\ getNodeLength(d, node) # r.so
             THEN "true"
        ELSE IF node = r.ec /\ isCharData /\ r.eo # 0 THEN "true"
        ELSE IF Len(d[node].kids) # 0
             THEN AllChildrenEffectivelyContained(d, node, r, 0)
        ELSE "false"
AllChildrenEffectivelyContained(d, node, r, i) ==
    IF i >= Len(d[node].kids) THEN "true"
    ELSE LET c == isEffectivelyContained(d, d[node].kids[i + 1], r)
         IN  IF c # "true" THEN c
             ELSE AllChildrenEffectivelyContained(d, node, r, i + 1)

\* "contained" as the specification defines it
Contained(d, node, r) ==
    /\ getRootContainer(d, node) = getRootContainer(d, r.sc)
    /\ comparePoints(d, node, 0, r.sc, r.so) = 1
    /\ comparePoints(d, node, getNodeLength(d, node), r.ec, r.eo) = -1

\* "effectively contained" as the specification defines it
RECURSIVE EffectivelyContained(_, _, _)
EffectivelyContained(d, node, r) ==
    \/ Contained(d, node, r)
    \/ node = r.sc /\ isCharacterDataNode(d, node) /\ getNodeLength(d, node) # r.so
    \/ node = r.ec /\ isCharacterDataNode(d, node) /\ r.eo # 0
    \/ /\ Len(d[node].kids) # 0
       /\ \A i \in 1..Len(d[node].kids) : EffectivelyContained(d, d[node].kids[i], r)

\* range.getNodes([3]): the text nodes the range effectively contains, in
\* document order; a collapsed range holds none
getNodes(d, r) ==
    IF collapsed(r) THEN <<>>
    ELSE SelectSeq(TextNodesOf(d, Root), LAMBDA t : EffectivelyContained(d, t, r))

(***************************************************************************)
(* Tree surgery of the class applier.                                      *)
(***************************************************************************)
\* el.hasChildNodes() loop of replaceWithOwnChildren: every child moves in
\* front of el, in order, and el is removed
replaceWithOwnChildren(d, el) ==
    LET parent == d[el].parent
        k      == Pos(d[parent].kids, el)
        moved  == d[el].kids
        d1     == Arena([x \in DOMAIN d |->
                     IF x = parent
                     THEN [d[x] EXCEPT !.kids = SubSeq(@, 1, k - 1) \o moved
                                                \o SubSeq(@, k, Len(@))]
                     ELSE IF x = el THEN [d[x] EXCEPT !.kids = <<>>]
                     ELSE IF d[x].parent = el THEN [d[x] EXCEPT !.parent = parent]
                     ELSE d[x]])
    IN  RemoveChild(d1, el)

isSplitPoint(d, node, offset) ==
    IF isCharacterDataNode(d, node)
    THEN IF offset = 0 THEN previousSibling(d, node) # NULL
         ELSE IF offset = Len(d[node].data) THEN nextSibling(d, node) # NULL
         ELSE TRUE
    ELSE offset > 0 /\ offset < Len(d[node].kids)

\* a variant that leaves the id on the clone
CloneWithId(d, n) == [d[n] EXCEPT !.parent = NULL, !.kids = <<>>]

\* node.cloneNode(false) followed by removeAttribute("id") when the clone
\* has an id
CloneWithoutId(d, n) == [d[n] EXCEPT !.parent = NULL, !.kids = <<>>, !.id = 0]

\* the clone of descendantNode takes its children from descendantOffset on
\* and is inserted after it; answers the tree and the clone.  A node without
\* a parent has nothing to insert the clone into: dom.insertAfter reads
\* parentNode.appendChild of null and throws, the children already moved
SplitElement(d, descendantNode, descendantOffset) ==
    LET new   == NewId(d)
        kids  == d[descendantNode].kids
        moved == SubSeq(kids, descendantOffset + 1, Len(kids))
        inNew == {moved[i] : i \in DOMAIN moved}
        d1    == Append(d, [CloneWithoutId(d, descendantNode) EXCEPT !.kids = moved])
        d2    == Arena([x \in DOMAIN d1 |->
                    IF x = descendantNode
                    THEN [d1[x] EXCEPT !.kids = SubSeq(kids, 1, descendantOffset)]
                    ELSE IF x \in inNew THEN [d1[x] EXCEPT !.parent = new]
                    ELSE d1[x]])
    IN  IF d[descendantNode].parent = NULL
        THEN [d |-> d2, node |-> new, err |-> TRUE]
        ELSE [d |-> insertAfter(d2, new, descendantNode), node |-> new, err |-> FALSE]

\* answers the tree, the node returned and whether an error was thrown
RECURSIVE splitNodeAt(_, _, _, _)
splitNodeAt(d, node, descendantNode, descendantOffset) ==
    LET isText   == isCharacterDataNode(d, descendantNode)
        atStart  == isText /\ descendantOffset = 0
        atEnd    == isText /\ ~atStart /\ descendantOffset = Len(d[descendantNode].data)
        inText   == isText /\ ~atStart /\ ~atEnd
        dNode    == IF atStart \/ atEnd THEN d[descendantNode].parent ELSE descendantNode
        dOffset  == IF atStart THEN getNodeIndex(d, descendantNode)
                    ELSE IF atEnd THEN getNodeIndex(d, descendantNode) + 1
                    ELSE descendantOffset
        \* sp: the tree, the new node and whether inserting it threw
        Split(sp) ==
            IF dNode = node \/ sp.err THEN sp
            ELSE splitNodeAt(sp.d, node, sp.d[sp.node].parent,
                             getNodeIndex(sp.d, sp.node))
    IN  IF inText
        THEN Split(splitDataNode(d, descendantNode, descendantOffset)
                   @@ [err |-> FALSE])
        ELSE Split(SplitElement(d, dNode, dOffset))

\* createAdjacentMergeableTextNodeGetter(forward): NULL, the sibling text
\* node, or the first/last child of the mergeable sibling of the parent
AdjacentMergeableTextNode(d, forward, textNode, checkParentElement) ==
    LET el == d[textNode].parent
        adjacentNode == IF forward THEN nextSibling(d, textNode)
                        ELSE previousSibling(d, textNode)
        adjacentEl == IF forward THEN nextSibling(d, el) ELSE previousSibling(d, el)
    IN  IF adjacentNode # NULL
        THEN IF isCharacterDataNode(d, adjacentNode) THEN adjacentNode ELSE NULL
        ELSE IF checkParentElement
        THEN IF /\ adjacentEl # NULL
                /\ IsElement(d, adjacentEl)
                /\ areElementsMergeable(d, el, adjacentEl)
             THEN IF forward THEN firstChild(d, adjacentEl) ELSE lastChild(d, adjacentEl)
             ELSE NULL
        ELSE NULL

getPreviousMergeableTextNode(d, textNode, checkParentElement) ==
    AdjacentMergeableTextNode(d, FALSE, textNode, checkParentElement)

getNextMergeableTextNode(d, textNode, checkParentElement) ==
    AdjacentMergeableTextNode(d, TRUE, textNode, checkParentElement)

\* new Merge(firstNode)
Merge(d, firstNode) ==
    LET firstTextNode == IF IsElement(d, firstNode) THEN lastChild(d, firstNode)
                         ELSE firstNode
    IN  [firstTextNode |-> firstTextNode, textNodes |-> <<firstTextNode>>]

\* Merge.prototype.getLength
RECURSIVE SumLengths(_, _, _)
SumLengths(d, ns, i) ==
    IF i > Len(ns) THEN 0 ELSE Len(d[ns[i]].data) + SumLengths(d, ns, i + 1)

\* a variant that counts the first text node only
getLengthFirst(d, merge) == Len(d[merge.firstTextNode].data)

getLength(d, merge) == SumLengths(d, merge.textNodes, 1)

\* Merge.prototype.doMerge: every member after the first is removed from its
\* parent, and the parent too when that empties it; the first member gets the
\* joined data.  The data of a member that is no text node is undefined,
\* which join takes for the empty string
RECURSIVE DoMergeFrom(_, _, _, _)
DoMergeFrom(d, merge, i, textBits) ==
    IF i > Len(merge.textNodes)
    THEN IF isCharacterDataNode(d, merge.firstTextNode)
         THEN [d EXCEPT ![merge.firstTextNode].data = textBits]
         ELSE d
    ELSE LET textNode == merge.textNodes[i]
             parent   == d[textNode].parent
             bits     == textBits \o d[textNode].data
             d1       == RemoveChild(d, textNode)
             d2       == IF d1[parent].kids = <<>> THEN RemoveChild(d1, parent) ELSE d1
         IN  IF i = 1 THEN DoMergeFrom(d, merge, i + 1, bits)
             ELSE DoMergeFrom(d2, merge, i + 1, bits)

doMerge(d, merge) == DoMergeFrom(d, merge, 1, <<>>)

RECURSIVE DoMerges(_, _, _)
DoMerges(d, merges, i) ==
    IF i > Len(merges) THEN d ELSE DoMerges(doMerge(d, merges[i]), merges, i + 1)

(***************************************************************************)
(* CssClassApplier.  The variable applier is the applier object (this):    *)
(* cssClass, tagNames, elementTagName, normalize, ignoreWhiteSpace.        *)
(***************************************************************************)
defaultTagName == "span"

\* a whitespace character has a negative code
isWhiteSpaceNode(d, n) ==
    isCharacterDataNode(d, n) /\ \A i \in DOMAIN d[n].data : d[n].data[i] < 0

\* the nearest ancestor element of an allowed tag that has the class, or NULL
RECURSIVE AncestorWithClassFrom(_, _)
AncestorWithClassFrom(d, node) ==
    IF node = NULL THEN NULL
    ELSE IF /\ IsElement(d, node)
            /\ d[node].tag \in applier.tagNames
            /\ hasClass(d, node, applier.cssClass)
         THEN node
         ELSE AncestorWithClassFrom(d, d[node].parent)

getAncestorWithClass(d, textNode) == AncestorWithClassFrom(d, d[textNode].parent)

\* the state of the scan of postApply: the merges made so far, whether
\* currentMerge is the last of them or null, and the boundaries to set
RECURSIVE PostApplyScan(_, _, _, _, _)
PostApplyScan(d, textNodes, isUndo, i, st) ==
    IF i > Len(textNodes) THEN st
    ELSE LET textNode  == textNodes[i]
             firstNode == textNodes[1]
             lastNode  == textNodes[Len(textNodes)]
             \* opened: the merges with currentMerge as the last of them
             Push(opened) ==
                 LET k   == Len(opened)
                     m   == [opened[k] EXCEPT !.textNodes = Append(@, textNode)]
                     st1 == [st EXCEPT !.merges = [opened EXCEPT ![k] = m],
                                       !.current = TRUE]
                     st2 == IF textNode = firstNode
                            THEN [st1 EXCEPT
                                    !.rangeStartNode = m.firstTextNode,
                                    !.rangeStartOffset =
                                        getNodeLength(d, m.firstTextNode)]
                            ELSE st1
                 IN  IF textNode = lastNode
                     THEN [st2 EXCEPT !.rangeEndNode = m.firstTextNode,
                                      !.rangeEndOffset = getLength(d, m)]
                     ELSE st2
             Step(precedingTextNode) ==
                 IF precedingTextNode # NULL
                 THEN Push(IF st.current THEN st.merges
                           ELSE Append(st.merges, Merge(d, precedingTextNode)))
                 ELSE [st EXCEPT !.current = FALSE]
         IN  PostApplyScan(d, textNodes, isUndo, i + 1,
                           Step(getPreviousMergeableTextNode(d, textNode, ~isUndo)))

\* answers the tree and the range (and that no error was thrown)
postApply(d, r, textNodes, isUndo) ==
    LET firstNode == textNodes[1]
        lastNode  == textNodes[Len(textNodes)]
        st0 == [merges |-> <<>>, current |-> FALSE,
                rangeStartNode |-> firstNode, rangeStartOffset |-> 0,
                rangeEndNode |-> lastNode, rangeEndOffset |-> getNodeLength(d, lastNode)]
        nextTextNode == getNextMergeableTextNode(d, lastNode, ~isUndo)
        \* d1: the tree after every merge was done
        Merged(st, d1) ==
            [d |-> d1,
             r |-> setEnd(d1, setStart(d1, r, st.rangeStartNode, st.rangeStartOffset),
                          st.rangeEndNode, st.rangeEndOffset),
             err |-> FALSE]
        Finish(st, merges) ==
            IF merges = <<>> THEN [d |-> d, r |-> r, err |-> FALSE]
            ELSE Merged(st, DoMerges(d, merges, 1))
        \* opened: the merges with currentMerge as the last of them
        Last(st, opened) ==
            Finish(st, IF nextTextNode # NULL
                       THEN [opened EXCEPT
                               ![Len(opened)].textNodes = Append(@, nextTextNode)]
                       ELSE st.merges)
        Scanned(st) ==
            Last(st, IF st.current THEN st.merges
                     ELSE Append(st.merges, Merge(d, lastNode)))
    IN  Scanned(PostApplyScan(d, textNodes, isUndo, 1, st0))

\* options.elementProperties: the set of the configured property names,
\* each with one value; {} in an applier made without the option
PropertyNames == {"className", "title"}

PropertyValue(p) == IF p = "className" THEN <<"x">> ELSE <<"t">>

elementProperties ==
    IF "elementProperties" \in DOMAIN applier THEN applier.elementProperties ELSE {}

\* the names the constructor pushes for the configured properties
attrExceptions == elementProperties

\* options.elementShouldRemoveCallback: "null" (the prototype's), or a
\* function that answers "true" or "false"
elementShouldRemoveCallback ==
    IF "elementShouldRemoveCallback" \in DOMAIN applier
    THEN applier.elementShouldRemoveCallback ELSE "null"

\* el[p]: className is the class string, title reflects the attribute
GetElementProperty(d, el, p) ==
    IF p = "className" THEN d[el].className
    ELSE IF p \in d[el].attrs THEN PropertyValue(p) ELSE <<>>

\* el[p] = value
SetElementProperty(d, el, p, value) ==
    IF p = "className"
    THEN [d EXCEPT ![el].className = value, ![el].classAttr = TRUE]
    ELSE [d EXCEPT ![el].attrs = @ \cup {p}]

elementHasProps(d, el, props) ==
    \A p \in props : GetElementProperty(d, el, p) = PropertyValue(p)

\* the loop of createContainer over this.elementProperties
SetElementProperties(d, el, props) ==
    LET Titled(d1) ==
            IF "title" \in props
            THEN SetElementProperty(d1, el, "title", PropertyValue("title"))
            ELSE d1
    IN  Titled(IF "className" \in props
               THEN SetElementProperty(d, el, "className", PropertyValue("className"))
               ELSE d)

\* answers the tree and the new element, which has no parent yet
createContainer(d) ==
    LET el == NewId(d)
    IN  [d |-> addClass(SetElementProperties(
                            Append(d, ElementNode(NULL, applier.elementTagName)),
                            el, elementProperties),
                        el, applier.cssClass),
         node |-> el]

\* a variant that misses the test of the parent's tag and of its only child
applyToTextNodeAnyParent(d, textNode) ==
    addClass(d, d[textNode].parent, applier.cssClass)

applyToTextNode(d, textNode) ==
    LET parent == d[textNode].parent
        c      == createContainer(d)
    IN  IF Len(d[parent].kids) = 1 /\ d[parent].tag \in applier.tagNames
        THEN addClass(d, parent, applier.cssClass)
        ELSE AppendChild(InsertBefore(c.d, parent, c.node, textNode), c.node, textNode)

elementSortedClassName ==
    IF "className" \in elementProperties
    THEN sortClassName(PropertyValue("className") \o <<" ", applier.cssClass>>)
    ELSE <<applier.cssClass>>

isRemovable(d, el) ==
    IF elementShouldRemoveCallback # "null" THEN elementShouldRemoveCallback = "true"
    ELSE /\ d[el].tag = applier.elementTagName
         /\ getSortedClassName(d, el) = elementSortedClassName
         /\ elementHasProps(d, el, elementProperties)
         /\ ~elementHasNonClassAttributes(d, el, attrExceptions)

\* a variant that unwraps the ancestor whatever isRemovable answers
RemoveAncestorAlways(d, ancestor) == replaceWithOwnChildren(d, ancestor)

\* the closing branch of undoToTextNode
RemoveAncestor(d, ancestor) ==
    IF isRemovable(d, ancestor)
    THEN replaceWithOwnChildren(d, ancestor)
    ELSE removeClass(d, ancestor, applier.cssClass)

\* answers the tree, the range and whether an error was thrown; and, when
\* none was, the tree the splits left and the ancestor in it
undoToTextNode(d, r, textNode, ancestorWithClass) ==
    LET ancestorRange == selectNode(d, ancestorWithClass)
        \* the closing branch, on the tree and the range the splits left
        Remove(d2, r1, ancestor) ==
            [d |-> RemoveAncestor(d2, ancestor),
             r |-> r1, err |-> FALSE, split |-> d2, ancestor |-> ancestor]
        \* sp: the result of the split at the start boundary
        StartSplit(sp, r1) ==
            IF sp.err THEN [d |-> sp.d, r |-> r1, err |-> TRUE]
            ELSE Remove(sp.d, r1, sp.node)
        Start(d1, r1) ==
            IF /\ isPointInRange(d1, ancestorRange, r1.sc, r1.so)
               /\ isSplitPoint(d1, r1.sc, r1.so)
            THEN StartSplit(splitNodeAt(d1, ancestorWithClass, r1.sc, r1.so), r1)
            ELSE Remove(d1, r1, ancestorWithClass)
        \* se: the result of the split at the end boundary
        EndSplit(se) ==
            IF se.err THEN [d |-> se.d, r |-> r, err |-> TRUE]
            ELSE Start(se.d, setEndAfter(se.d, r, ancestorWithClass))
    IN  IF containsNode(d, r, ancestorWithClass)
        THEN Remove(d, r, ancestorWithClass)
        ELSE IF /\ isPointInRange(d, ancestorRange, r.ec, r.eo)
                /\ isSplitPoint(d, r.ec, r.eo)
        THEN EndSplit(splitNodeAt(d, ancestorWithClass, r.ec, r.eo))
        ELSE Start(d, r)

\* a variant that wraps text nodes that have an ancestor with the class too
RECURSIVE ApplyToTextNodesCovered(_, _, _)
ApplyToTextNodesCovered(d, textNodes, i) ==
    IF i > Len(textNodes) THEN d
    ELSE LET textNode == textNodes[i]
         IN  IF ~(applier.ignoreWhiteSpace /\ isWhiteSpaceNode(d, textNode))
             THEN ApplyToTextNodesCovered(applyToTextNode(d, textNode), textNodes, i + 1)
             ELSE ApplyToTextNodesCovered(d, textNodes, i + 1)

\* a variant that wraps whitespace text nodes too
RECURSIVE ApplyToTextNodesAll(_, _, _)
ApplyToTextNodesAll(d, textNodes, i) ==
    IF i > Len(textNodes) THEN d
    ELSE LET textNode == textNodes[i]
         IN  IF getAncestorWithClass(d, textNode) = NULL
             THEN ApplyToTextNodesAll(applyToTextNode(d, textNode), textNodes, i + 1)
             ELSE ApplyToTextNodesAll(d, textNodes, i + 1)

RECURSIVE ApplyToTextNodes(_, _, _)
ApplyToTextNodes(d, textNodes, i) ==
    IF i > Len(textNodes) THEN d
    ELSE LET textNode == textNodes[i]
         IN  IF /\ ~(applier.ignoreWhiteSpace /\ isWhiteSpaceNode(d, textNode))
                /\ getAncestorWithClass(d, textNode) = NULL
             THEN ApplyToTextNodes(applyToTextNode(d, textNode), textNodes, i + 1)
             ELSE ApplyToTextNodes(d, textNodes, i + 1)

\* answers the tree, the range and whether an error was thrown
applyToRange(d, r) ==
    LET \* d1: the tree after the loop; r2: the range set to the text nodes
        Bounded(d1, r2, textNodes) ==
            IF applier.normalize THEN postApply(d1, r2, textNodes, FALSE)
            ELSE [d |-> d1, r |-> r2, err |-> FALSE]
        Applied(d1, r0, textNodes) ==
            LET textNode == textNodes[Len(textNodes)]
            IN  Bounded(d1,
                        setEnd(d1, setStart(d1, r0, textNodes[1], 0),
                               textNode, getNodeLength(d1, textNode)),
                        textNodes)
        Selected(sb, textNodes) ==
            IF textNodes = <<>> THEN [d |-> sb.d, r |-> sb.r, err |-> FALSE]
            ELSE Applied(ApplyToTextNodes(sb.d, textNodes, 1), sb.r, textNodes)
        \* sb: the tree and the range after splitBoundaries
        Split(sb) ==
            Selected(sb, SelectSeq(getNodes(sb.d, sb.r),
                                   LAMBDA t : rangeSelectsAnyText(sb.d, sb.r, t)))
    IN  Split(splitBoundaries(d, r))

\* the loop of undoToRange: st is the tree, the range and whether an error
\* was thrown, which ends the loop
RECURSIVE UndoToTextNodes(_, _, _)
UndoToTextNodes(st, textNodes, i) ==
    IF i > Len(textNodes) \/ st.err THEN st
    ELSE LET textNode == textNodes[i]
             lastTextNode == textNodes[Len(textNodes)]
             ancestorWithClass == getAncestorWithClass(st.d, textNode)
             \* u: the tree and the range after undoToTextNode, if called
             Undone(u) ==
                 IF u.err THEN u
                 ELSE [d |-> u.d,
                       r |-> setEnd(u.d, setStart(u.d, u.r, textNodes[1], 0),
                                    lastTextNode, getNodeLength(u.d, lastTextNode)),
                       err |-> FALSE]
         IN  UndoToTextNodes(Undone(IF ancestorWithClass # NULL
                                    THEN undoToTextNode(st.d, st.r, textNode,
                                                        ancestorWithClass)
                                    ELSE st),
                             textNodes, i + 1)

\* answers the tree, the range and whether an error was thrown
undoToRange(d, r) ==
    LET \* u: the tree and the range after the loop
        Undone(u, textNodes) ==
            IF u.err THEN u
            ELSE IF applier.normalize THEN postApply(u.d, u.r, textNodes, TRUE)
            ELSE u
        Selected(sb, textNodes) ==
            IF textNodes = <<>> THEN [d |-> sb.d, r |-> sb.r, err |-> FALSE]
            ELSE Undone(UndoToTextNodes([d |-> sb.d, r |-> sb.r, err |-> FALSE],
                                        textNodes, 1),
                        textNodes)
        \* sb: the tree and the range after splitBoundaries
        Split(sb) == Selected(sb, getNodes(sb.d, sb.r))
    IN  Split(splitBoundaries(d, r))

\* a variant that answers false for a range without text nodes
isAppliedToRangeSome(d, r) ==
    /\ getNodes(d, r) # <<>>
    /\ \A i \in DOMAIN getNodes(d, r) :
            ~(rangeSelectsAnyText(d, r, getNodes(d, r)[i])
              /\ getAncestorWithClass(d, getNodes(d, r)[i]) = NULL)

isAppliedToRange(d, r) ==
    LET textNodes == getNodes(d, r)
    IN  \A i \in DOMAIN textNodes :
            ~(rangeSelectsAnyText(d, r, textNodes[i])
              /\ getAncestorWithClass(d, textNodes[i]) = NULL)

\* a variant that applies whatever isAppliedToRange answers
toggleRangeApply(d, r) == applyToRange(d, r) @@ [called |-> "applyToRange"]

\* called: the method the toggle called
toggleRange(d, r) ==
    IF isAppliedToRange(d, r)
    THEN undoToRange(d, r) @@ [called |-> "undoToRange"]
    ELSE applyToRange(d, r) @@ [called |-> "applyToRange"]

(***************************************************************************)
(* Block extension (rangy-commands).  The computed display of an element   *)
(* is that of the browser's default style sheet for its tag.               *)
(***************************************************************************)
InlineTags == {"span", "i", "br"}

getComputedStyleProperty(d, el) ==
    IF d[el].tag \in InlineTags THEN "inline" ELSE "block"

isInlineNode(d, node) ==
    IF isCharacterDataNode(d, node) THEN TRUE
    ELSE IsElement(d, node) /\ getComputedStyleProperty(d, node) = "inline"

isNonBrInlineNode(d, node) ==
    IF isInlineNode(d, node) THEN d[node].tag # "br" ELSE FALSE

\* the third test of both loops: the child at the offset exists, and it and
\* its previous sibling are inline nodes that are no br
ChildAndPreviousInline(d, node, offset) ==
    IF ChildAt(d, node, offset) = NULL THEN FALSE
    ELSE IF ~isNonBrInlineNode(d, ChildAt(d, node, offset)) THEN FALSE
    ELSE isNonBrInlineNode(d, previousSibling(d, ChildAt(d, node, offset)))

\* the branch an iteration of the start loop takes
StartBranch(d, startNode, startOffset) ==
    IF isCharacterDataNode(d, startNode) \/ startOffset = 0 THEN "parent"
    ELSE IF startOffset = getNodeLength(d, startNode) THEN "after"
    ELSE IF ChildAndPreviousInline(d, startNode, startOffset) THEN "absorb"
    ELSE "break"

\* the branch an iteration of the end loop takes
EndBranch(d, endNode, endOffset) ==
    IF endOffset = 0 THEN "parent"
    ELSE IF isCharacterDataNode(d, endNode) \/ endOffset = getNodeLength(d, endNode)
    THEN "after"
    ELSE IF ChildAndPreviousInline(d, endNode, endOffset) THEN "absorb"
    ELSE "break"

\* a variant that sets the end where the start is
newRangeCollapsed(d, r, startNode, startOffset, endNode, endOffset) ==
    setEnd(d, setStart(d, r, startNode, startOffset), startNode, startOffset)

\* a variant that sets the start one child too early
newRangeOneBefore(d, r, startNode, startOffset, endNode, endOffset) ==
    setEnd(d, setStart(d, r, startNode, startOffset - 1), endNode, endOffset)

\* range.cloneRange(), setStart, setEnd: the range blockExtend returns
newRange(d, r, startNode, startOffset, endNode, endOffset) ==
    setEnd(d, setStart(d, r, startNode, startOffset), endNode, endOffset)

(***************************************************************************)
(* Initial documents: a root div whose children are drawn from a few       *)
(* shapes of inline content.  Every text node holds two characters.        *)
(***************************************************************************)
AddElement(d, parent, tag, className) ==
    LET el == NewId(d)
        d1 == Append(d, [ElementNode(NULL, tag) EXCEPT
                            !.className = className,
                            !.classAttr = className # <<>>])
    IN  AppendChild(d1, parent, el)

AddText(d, parent) ==
    LET n  == Len(FlatText(d))
        d1 == Append(d, TextNode(NULL, <<n + 1, n + 2>>))
    IN  AppendChild(d1, parent, NewId(d))

\* "t" text; "s" <span>text</span>; "sc" <span class="c">text</span>;
\* "i" <i>text</i>; "sci" <span class="c"><i>text</i></span>;
\* "sx" <span class="x">text</span>;
\* "scc" <span class="c"><span class="c">text</span></span>;
\* "scii" <span class="c"><i>text</i><i>text</i></span>
Shapes == {"t", "s", "sc", "i", "sci", "sx", "scc", "scii"}

\* "br" <br>; "pb" <p>text<br>text</p>
BlockShapes == {"t", "i", "br", "pb"}

AddShape(d, shape) ==
    CASE shape = "t"   -> AddText(d, Root)
      [] shape = "s"   -> AddText(AddElement(d, Root, "span", <<>>), NewId(d))
      [] shape = "sc"  -> AddText(AddElement(d, Root, "span", <<"c">>), NewId(d))
      [] shape = "i"   -> AddText(AddElement(d, Root, "i", <<>>), NewId(d))
      [] shape = "sx"  -> AddText(AddElement(d, Root, "span", <<"x">>), NewId(d))
      [] shape = "br"  -> AddElement(d, Root, "br", <<>>)
      [] shape = "pb"  ->
            AddText(AddElement(AddText(AddElement(d, Root, "p", <<>>), NewId(d)),
                               NewId(d), "br", <<>>),
                    NewId(d))
      [] shape = "scc" ->
            AddText(AddElement(AddElement(d, Root, "span", <<"c">>),
                               NewId(d), "span", <<"c">>),
                    NewId(d) + 1)
      [] shape = "sci" ->
            AddText(AddElement(AddElement(d, Root, "span", <<"c">>),
                               NewId(d), "i", <<>>),
                    NewId(d) + 1)
      [] shape = "scii" ->
            LET el == NewId(d)
            IN  AddText(AddElement(AddText(AddElement(AddElement(d, Root, "span",
                                                                 <<"c">>),
                                                      el, "i", <<>>),
                                           el + 1),
                                   el, "i", <<>>),
                        el + 3)

RECURSIVE Build(_, _, _)
Build(d, shapes, i) ==
    IF i > Len(shapes) THEN d ELSE Build(AddShape(d, shapes[i]), shapes, i + 1)

DocumentsOf(shapeSet, maxKids) ==
    {Build(<<ElementNode(NULL, "div")>>, shapes, 1) :
        shapes \in UNION {[1..n -> shapeSet] : n \in 1..maxKids}}

Documents == DocumentsOf(Shapes, MaxKids)

BlockDocuments == DocumentsOf(BlockShapes, MaxBlockKids)

Points(d) ==
    {<<n, o>> : n \in Nodes(d), o \in 0..2} \cap
    {p \in Nodes(d) \X (0..2) : ValidPoint(d, p[1], p[2])}

Ranges(d) ==
    {MkRange(a[1], a[2], b[1], b[2]) : a \in Points(d), b \in Points(d)} \cap
    {r \in [sc : Nodes(d), so : 0..2, ec : Nodes(d), eo : 0..2] : ValidRange(d, r)}

\* rangy.createCssClassApplier("c", normalize): the default tag names
Appliers ==
    [cssClass : {"c"}, tagNames : {{defaultTagName}},
     elementTagName : {defaultTagName}, normalize : BOOLEAN,
     ignoreWhiteSpace : {FALSE}]

\* no containment function was called yet; global says whether the page
\* that loaded the commands module has a global function getNodeLength
NoProbe == [node |-> NULL, global |-> "unbound", fn |-> "", result |-> ""]

NoRange == MkRange(NULL, 0, NULL, 0)

\* blockExtend is not running
NoBx == [pc |-> "off", startNode |-> NULL, startOffset |-> 0, endNode |-> NULL,
         endOffset |-> 0, round |-> 0, first |-> NoRange, result |-> NoRange]

\* no function of the commands module was called yet
NoCall == [fn |-> ""]

\* no selection operation is running
NoSel == [pc |-> "off"]

\* var commandsByName = {}: an object without own properties, whose
\* prototype is Object.prototype
NoCommands == [own |-> <<>>, proto |-> "Object.prototype"]

Init ==
    /\ dom \in Documents
    /\ range \in Ranges(dom)
    /\ applier \in Appliers
    /\ log = <<>>
    /\ text0 = FlatText(dom)
    /\ dom0 = dom
    /\ probe = NoProbe
    /\ bx = NoBx
    /\ call = NoCall
    /\ sel = NoSel
    /\ commandsByName = NoCommands

\* an operation that threw ends the run: the caller's script is aborted
Thrown == IF log = <<>> THEN FALSE ELSE log[Len(log)] = "throw"

Running == Len(log) < MaxOps /\ ~Thrown

\* the caller keeps the range object, which the operation rewrote
Perform(res, name) ==
    /\ dom' = res.d
    /\ range' = res.r
    /\ log' = Append(log, IF res.err THEN "throw" ELSE name)

ApplyToRange ==
    /\ Running
    /\ Perform(applyToRange(dom, range), "apply")
    /\ UNCHANGED <<applier, text0, dom0, probe, bx, call, sel, commandsByName>>

UndoToRange ==
    /\ Running
    /\ Perform(undoToRange(dom, range), "undo")
    /\ UNCHANGED <<applier, text0, dom0, probe, bx, call, sel, commandsByName>>

ToggleRange ==
    /\ Running
    /\ Perform(toggleRange(dom, range), "toggle")
    /\ call' = [fn |-> "toggleRange", called |-> toggleRange(dom, range).called]
    /\ UNCHANGED <<applier, text0, dom0, probe, bx, sel, commandsByName>>

Next == ApplyToRange \/ UndoToRange \/ ToggleRange

Spec == Init /\ [][Next]_vars

(***************************************************************************)
(* Containment: one call of isContained or of isEffectivelyContained with  *)
(* a node of the document and the range.                                   *)
(***************************************************************************)
InitGeom ==
    /\ dom \in Documents
    /\ range \in Ranges(dom)
    /\ applier \in {a \in Appliers : a.normalize}
    /\ log = <<>>
    /\ text0 = FlatText(dom)
    /\ dom0 = dom
    /\ probe \in {[NoProbe EXCEPT !.global = g] : g \in {"bound", "unbound"}}
    /\ bx = NoBx
    /\ call = NoCall
    /\ sel = NoSel
    /\ commandsByName = NoCommands

CallIsContained ==
    /\ probe.fn = ""
    /\ \E node \in Nodes(dom) :
          probe' = [probe EXCEPT !.node = node, !.fn = "isContained",
                                 !.result = isContained(dom, node, range)]
    /\ UNCHANGED <<dom, range, applier, log, text0, dom0, bx, call, sel, commandsByName>>

CallIsEffectivelyContained ==
    /\ probe.fn = ""
    /\ \E node \in Nodes(dom) :
          probe' = [probe EXCEPT !.node = node, !.fn = "isEffectivelyContained",
                                 !.result = isEffectivelyContained(dom, node, range)]
    /\ UNCHANGED <<dom, range, applier, log, text0, dom0, bx, call, sel, commandsByName>>

NextGeom == CallIsContained \/ CallIsEffectivelyContained

SpecGeom == InitGeom /\ [][NextGeom]_vars

(***************************************************************************)
(* blockExtend, one iteration of a loop at a time.  bx holds the locals    *)
(* startNode, startOffset, endNode, endOffset and the place in the code;   *)
(* the range it returned is extended once more (round 2).                  *)
(***************************************************************************)
Enter(r, round, first) ==
    [pc |-> "start", startNode |-> r.sc, startOffset |-> r.so, endNode |-> r.ec,
     endOffset |-> r.eo, round |-> round, first |-> first, result |-> NoRange]

InitBlock ==
    /\ dom \in BlockDocuments
    /\ range \in Ranges(dom)
    /\ applier \in {a \in Appliers : a.normalize}
    /\ log = <<>>
    /\ text0 = FlatText(dom)
    /\ dom0 = dom
    /\ probe = NoProbe
    /\ bx = Enter(range, 1, NoRange)
    /\ call = NoCall
    /\ sel = NoSel
    /\ commandsByName = NoCommands

BlockFrame ==
    UNCHANGED <<dom, range, applier, log, text0, dom0, probe, call, sel, commandsByName>>

StartLoop(branch) ==
    /\ bx.pc = "start"
    /\ bx.startNode # NULL
    /\ StartBranch(dom, bx.startNode, bx.startOffset) = branch

EndLoop(branch) ==
    /\ bx.pc = "end"
    /\ bx.endNode # NULL
    /\ EndBranch(dom, bx.endNode, bx.endOffset) = branch

StartToParent ==
    /\ StartLoop("parent")
    /\ bx' = [bx EXCEPT !.startOffset = getNodeIndex(dom, bx.startNode),
                         !.startNode = dom[bx.startNode].parent]
    /\ BlockFrame

StartAfterParent ==
    /\ StartLoop("after")
    /\ bx' = [bx EXCEPT !.startOffset = 1 + getNodeIndex(dom, bx.startNode),
                         !.startNode = dom[bx.startNode].parent]
    /\ BlockFrame

StartAbsorb ==
    /\ StartLoop("absorb")
    /\ bx' = [bx EXCEPT !.startOffset = @ - 1]
    /\ BlockFrame

StartBreak ==
    /\ StartLoop("break")
    /\ bx' = [bx EXCEPT !.pc = "end"]
    /\ BlockFrame

EndToParent ==
    /\ EndLoop("parent")
    /\ bx' = [bx EXCEPT !.endOffset = getNodeIndex(dom, bx.endNode),
                         !.endNode = dom[bx.endNode].parent]
    /\ BlockFrame

EndAfterParent ==
    /\ EndLoop("after")
    /\ bx' = [bx EXCEPT !.endOffset = 1 + getNodeIndex(dom, bx.endNode),
                         !.endNode = dom[bx.endNode].parent]
    /\ BlockFrame

EndAbsorb ==
    /\ EndLoop("absorb")
    /\ bx' = [bx EXCEPT !.endOffset = @ + 1]
    /\ BlockFrame

\* the end loop breaks and blockExtend returns the new range
EndBreak ==
    /\ EndLoop("break")
    /\ bx' = [bx EXCEPT !.pc = "done",
                         !.result = newRange(dom, IF bx.round = 1 THEN range
                                                  ELSE bx.first,
                                             bx.startNode, bx.startOffset,
                                             bx.endNode, bx.endOffset)]
    /\ BlockFrame

\* the node of the loop is null: dom.isCharacterDataNode(null) and
\* dom.getNodeIndex(null) read a property of null and throw a TypeError
NullNode ==
    /\ \/ bx.pc = "start" /\ bx.startNode = NULL
       \/ bx.pc = "end" /\ bx.endNode = NULL
    /\ bx' = [bx EXCEPT !.pc = "TypeError"]
    /\ BlockFrame

\* blockExtend is called with the range it returned
BlockExtendAgain ==
    /\ bx.pc = "done"
    /\ bx.round = 1
    /\ bx' = Enter(bx.result, 2, bx.result)
    /\ BlockFrame

NextBlock ==
    \/ StartToParent \/ StartAfterParent \/ StartAbsorb \/ StartBreak
    \/ EndToParent \/ EndAfterParent \/ EndAbsorb \/ EndBreak
    \/ NullNode \/ BlockExtendAgain

SpecBlock == InitBlock /\ [][NextBlock]_vars

(***************************************************************************)
(* movePreservingRanges: one call with the range, a node below the root,   *)
(* an element that is not inside the node, and an index among its children. *)
(***************************************************************************)
\* answers the tree, the range, and whether range.setStart or range.setEnd
\* threw for an offset outside the node it was given
movePreservingRanges(d, r, node, newParent, newIndex) ==
    LET oldParent == d[node].parent
        oldIndex  == getNodeIndex(d, node)
        NewNode(c, o) ==
            IF c = oldParent /\ (o = oldIndex \/ o = oldIndex + 1)
            THEN newParent ELSE c
        NewOffset(c, o) ==
            o + (IF c = newParent /\ o > newIndex THEN 1 ELSE 0)
              + (IF c = oldParent /\ (o = oldIndex \/ o = oldIndex + 1)
                 THEN newIndex - oldIndex ELSE 0)
              - (IF c = oldParent /\ o > oldIndex + 1 THEN 1 ELSE 0)
        newSc == NewNode(r.sc, r.so)
        newSo == NewOffset(r.sc, r.so)
        newEc == NewNode(r.ec, r.eo)
        newEo == NewOffset(r.ec, r.eo)
        child == ChildAt(d, newParent, newIndex)
        \* insertBefore(node, node) inserts before the next sibling of node
        ref   == IF child = node THEN nextSibling(d, node) ELSE child
        d1    == IF Len(d[newParent].kids) = newIndex
                 THEN AppendChild(d, newParent, node)
                 ELSE InsertBefore(d, newParent, node, ref)
        r1    == setStart(d1, r, newSc, newSo)
    IN  IF ~ValidPoint(d1, newSc, newSo) THEN [d |-> d1, r |-> r, err |-> TRUE]
        ELSE IF ~ValidPoint(d1, newEc, newEo) THEN [d |-> d1, r |-> r1, err |-> TRUE]
        ELSE [d |-> d1, r |-> setEnd(d1, r1, newEc, newEo), err |-> FALSE]

InitMove ==
    /\ dom \in Documents
    /\ range \in Ranges(dom)
    /\ applier \in {a \in Appliers : a.normalize}
    /\ log = <<>>
    /\ text0 = FlatText(dom)
    /\ dom0 = dom
    /\ probe = NoProbe
    /\ bx = NoBx
    /\ call = NoCall
    /\ sel = NoSel
    /\ commandsByName = NoCommands

MovePreservingRanges ==
    /\ call.fn = ""
    /\ \E node \in Nodes(dom) \ {Root} :
       \E newParent \in {p \in Nodes(dom) : IsElement(dom, p)
                                            /\ ~isOrIsAncestorOf(dom, node, p)} :
       \E newIndex \in 0..Len(dom[newParent].kids) :
          LET res == movePreservingRanges(dom, range, node, newParent, newIndex)
          IN  /\ dom' = res.d
              /\ range' = res.r
              /\ call' = [fn |-> "movePreservingRanges", node |-> node,
                          newParent |-> newParent, newIndex |-> newIndex,
                          oldParent |-> dom[node].parent,
                          oldIndex |-> getNodeIndex(dom, node),
                          range |-> range, err |-> res.err]
    /\ UNCHANGED <<applier, log, text0, dom0, probe, bx, sel, commandsByName>>

NextMove == MovePreservingRanges

SpecMove == InitMove /\ [][NextMove]_vars

(***************************************************************************)
(* splitNodeAt: one call with an element below the root, a node that is    *)
(* the element or inside it, and an offset that is a split point.          *)
(***************************************************************************)
\* the document with an id and a title attribute on every element below the
\* root
WithAttributes(d) ==
    Arena([n \in DOMAIN d |->
        IF IsElement(d, n) /\ n # Root
        THEN [d[n] EXCEPT !.id = n, !.attrs = {"title"}]
        ELSE d[n]])

SplitDocuments == Documents \cup {WithAttributes(d) : d \in Documents}

InitSplit ==
    /\ dom \in SplitDocuments
    /\ range = MkRange(Root, 0, Root, 0)
    /\ applier \in {a \in Appliers : a.normalize}
    /\ log = <<>>
    /\ text0 = FlatText(dom)
    /\ dom0 = dom
    /\ probe = NoProbe
    /\ bx = NoBx
    /\ call = NoCall
    /\ sel = NoSel
    /\ commandsByName = NoCommands

SplitNodeAt ==
    /\ call.fn = ""
    /\ \E node \in Nodes(dom) \ {Root} :
       \E descendantNode \in {n \in Nodes(dom) : IsElement(dom, node)
                                                 /\ isOrIsAncestorOf(dom, node, n)} :
       \E descendantOffset \in 0..getNodeLength(dom, descendantNode) :
          /\ isSplitPoint(dom, descendantNode, descendantOffset)
          /\ LET res == splitNodeAt(dom, node, descendantNode, descendantOffset)
             IN  /\ dom' = res.d
                 /\ call' = [fn |-> "splitNodeAt", node |-> node,
                             descendantNode |-> descendantNode,
                             descendantOffset |-> descendantOffset,
                             newNode |-> res.node, err |-> res.err, dom |-> dom]
    /\ UNCHANGED <<range, applier, log, text0, dom0, probe, bx, sel, commandsByName>>

NextSplit == SplitNodeAt

SpecSplit == InitSplit /\ [][NextSplit]_vars

(***************************************************************************)
(* applyToSelection and undoToSelection.  The selection holds ranges over  *)
(* text nodes of the document; sel.ranges is the array getAllRanges         *)
(* answered (the range objects, which the operations rewrite), sel.i the    *)
(* loop variable, sel.order the indices (from 0) handed to applyToRange or  *)
(* undoToRange so far, sel.added the ranges handed to sel.addRange so far.  *)
(***************************************************************************)
\* the ranges of a selection: the contents of some text nodes, in document
\* order
SelectionsOf(d) ==
    {[k \in DOMAIN SelectSeq(TextNodesOf(d, Root), LAMBDA t : t \in chosen) |->
         LET t == SelectSeq(TextNodesOf(d, Root), LAMBDA x : x \in chosen)[k]
         IN  MkRange(t, 0, t, getNodeLength(d, t))] :
       chosen \in SUBSET {t \in Nodes(d) : isCharacterDataNode(d, t)}}

InitSelection ==
    /\ dom \in Documents
    /\ range = NoRange
    /\ applier \in {a \in Appliers : ~a.normalize}
    /\ log = <<>>
    /\ text0 = FlatText(dom)
    /\ dom0 = dom
    /\ probe = NoProbe
    /\ bx = NoBx
    /\ call = NoCall
    /\ sel \in {[pc |-> "off", ranges |-> ranges, i |-> 0, order |-> <<>>,
                 added |-> <<>>] : ranges \in SelectionsOf(dom)}
    /\ commandsByName = NoCommands

SelectionFrame ==
    UNCHANGED <<range, applier, log, text0, dom0, probe, bx, call, commandsByName>>

\* getAllRanges, removeAllRanges, var i = ranges.length
ApplyToSelection ==
    /\ sel.pc = "off"
    /\ sel' = [sel EXCEPT !.pc = IF Len(sel.ranges) = 0 THEN "done" ELSE "apply",
                          !.i = Len(sel.ranges)]
    /\ UNCHANGED dom
    /\ SelectionFrame

\* one round of while (i--): applyToRange(ranges[i]), sel.addRange(ranges[i])
ApplyToSelectionRound ==
    /\ sel.pc = "apply"
    /\ LET i   == sel.i - 1
           res == applyToRange(dom, sel.ranges[i + 1])
       IN  /\ dom' = res.d
           /\ sel' = IF res.err THEN [sel EXCEPT !.pc = "throw"]
                     ELSE [sel EXCEPT !.pc = IF i = 0 THEN "done" ELSE "apply",
                                      !.i = i,
                                      !.ranges[i + 1] = res.r,
                                      !.order = Append(@, i),
                                      !.added = Append(@, res.r)]
    /\ SelectionFrame

\* getAllRanges, removeAllRanges, var i = 0
UndoToSelection ==
    /\ sel.pc = "off"
    /\ sel' = [sel EXCEPT !.pc = IF Len(sel.ranges) = 0 THEN "done" ELSE "undo",
                          !.i = 0]
    /\ UNCHANGED dom
    /\ SelectionFrame

\* a variant of the round that does not hand the range to sel.addRange
UndoToSelectionRoundNoAdd ==
    /\ sel.pc = "undo"
    /\ LET i   == sel.i
           res == undoToRange(dom, sel.ranges[i + 1])
       IN  /\ dom' = res.d
           /\ sel' = IF res.err THEN [sel EXCEPT !.pc = "throw"]
                     ELSE [sel EXCEPT !.pc = IF i + 1 = Len(sel.ranges)
                                             THEN "done" ELSE "undo",
                                      !.i = i + 1,
                                      !.ranges[i + 1] = res.r]
    /\ SelectionFrame

\* one round of for (i = 0; i < len; ++i): undoToRange(ranges[i]),
\* sel.addRange(ranges[i])
UndoToSelectionRound ==
    /\ sel.pc = "undo"
    /\ LET i   == sel.i
           res == undoToRange(dom, sel.ranges[i + 1])
       IN  /\ dom' = res.d
           /\ sel' = IF res.err THEN [sel EXCEPT !.pc = "throw"]
                     ELSE [sel EXCEPT !.pc = IF i + 1 = Len(sel.ranges)
                                             THEN "done" ELSE "undo",
                                      !.i = i + 1,
                                      !.ranges[i + 1] = res.r,
                                      !.order = Append(@, i),
                                      !.added = Append(@, res.r)]
    /\ SelectionFrame

NextSelection ==
    \/ ApplyToSelection \/ ApplyToSelectionRound
    \/ UndoToSelection \/ UndoToSelectionRound

SpecSelection == InitSelection /\ [][NextSelection]_vars

(***************************************************************************)
(* The registry of commands.  A name is a sequence of characters; the name *)
(* __proto__ is kept whole.  log is the list of the calls made.            *)
(***************************************************************************)
Letters == {"a", "A", "b"}

ProtoName == <<"__proto__">>

Names ==
    UNION {[1..n -> Letters] : n \in 1..MaxNameLen} \cup {ProtoName}

\* instances of Command
Commands == {"command1", "command2"}

\* what a caller may hand to registerCommand
Objects == Commands \cup {"object"}

\* String.prototype.toLowerCase
toLowerCase(name) ==
    [i \in DOMAIN name |-> IF name[i] = "A" THEN "a" ELSE name[i]]

\* obj[key] = value: the key __proto__ sets the prototype of the object, any
\* other key an own property
SetProperty(obj, key, value) ==
    IF key = ProtoName THEN [obj EXCEPT !.proto = value]
    ELSE [obj EXCEPT !.own = (key :> value) @@ @]

hasOwnProperty(obj, key) == key \in DOMAIN obj.own

\* a variant that stores the object before it tests it
registerCommandUnchecked(name, command) ==
    [commandsByName |-> SetProperty(commandsByName, toLowerCase(name), command),
     err |-> command \notin Commands]

\* api.registerCommand: answers the registry and whether it threw
registerCommand(name, command) ==
    IF command \notin Commands
    THEN [commandsByName |-> commandsByName, err |-> TRUE]
    ELSE [commandsByName |-> SetProperty(commandsByName, toLowerCase(name), command),
          err |-> FALSE]

\* getCommand: the command, or "Error" for the error thrown
getCommand(registry, name) ==
    IF hasOwnProperty(registry, toLowerCase(name))
    THEN registry.own[toLowerCase(name)]
    ELSE "Error"

InitRegistry ==
    /\ dom \in {d \in Documents : Len(d) = 2}
    /\ range = NoRange
    /\ applier \in {a \in Appliers : a.normalize}
    /\ log = <<>>
    /\ text0 = FlatText(dom)
    /\ dom0 = dom
    /\ probe = NoProbe
    /\ bx = NoBx
    /\ call = NoCall
    /\ sel = NoSel
    /\ commandsByName = NoCommands

RegistryFrame == UNCHANGED <<dom, range, applier, text0, dom0, probe, bx, call, sel>>

RegisterCommand ==
    /\ Len(log) < MaxCalls
    /\ \E name \in Names, command \in Objects :
          /\ commandsByName' = registerCommand(name, command).commandsByName
          /\ log' = Append(log, [fn |-> "registerCommand", name |-> name,
                                 command |-> command,
                                 result |-> IF registerCommand(name, command).err
                                            THEN "Error" ELSE "undefined"])
    /\ RegistryFrame

GetCommand ==
    /\ Len(log) < MaxCalls
    /\ \E name \in Names :
          log' = Append(log, [fn |-> "getCommand", name |-> name, command |-> "",
                              result |-> getCommand(commandsByName, name)])
    /\ UNCHANGED commandsByName
    /\ RegistryFrame

NextRegistry == RegisterCommand \/ GetCommand

SpecRegistry == InitRegistry /\ [][NextRegistry]_vars

(***************************************************************************)
(* An applier constructed with "*" for the tag names, as a string or in a  *)
(* list.  applier.tagNamesBound says whether the constructor assigned      *)
(* this.tagNames at all.                                                   *)
(***************************************************************************)
\* the elements of a list
Elements(list) == {list[i] : i \in DOMAIN list}

\* new CssClassApplier(cssClass, {normalize, tagNames}): a string of tag
\* names is the list of its names, "*" a list of one
CssClassApplier(cssClass, normalize, tagNames) ==
    [cssClass |-> cssClass, elementTagName |-> defaultTagName,
     normalize |-> normalize, ignoreWhiteSpace |-> FALSE,
     applyToAnyTagName |->
        IF tagNames.type = "string" THEN tagNames.value = <<"*">>
        ELSE IF tagNames.type = "object" THEN "*" \in Elements(tagNames.value)
        ELSE FALSE,
     tagNamesBound |-> ~(tagNames.type = "string" /\ tagNames.value = <<"*">>),
     tagNames |->
        IF tagNames.type = "string"
        THEN (IF tagNames.value = <<"*">> THEN {} ELSE Elements(tagNames.value))
        ELSE IF tagNames.type = "object" THEN Elements(tagNames.value) \ {"*"}
        ELSE {defaultTagName}]

AnyTagAppliers ==
    {CssClassApplier("c", normalize, [type |-> type, value |-> <<"*">>]) :
        normalize \in BOOLEAN, type \in {"string", "object"}}

\* dom.arrayContains(this.tagNames, ...) reads the length of its first
\* argument: a TypeError when this.tagNames is undefined.  getAncestorWithClass
\* and applyToTextNode evaluate it for the element parent of a text node
TagNamesTypeError == ~applier.tagNamesBound

\* isAppliedToRange: "true", "false", or "TypeError" when getAncestorWithClass
\* is reached, which is for the first text node with selected text
isAppliedToRangeResult(d, r) ==
    IF /\ TagNamesTypeError
       /\ \E i \in DOMAIN getNodes(d, r) : rangeSelectsAnyText(d, r, getNodes(d, r)[i])
    THEN "TypeError"
    ELSE IF isAppliedToRange(d, r) THEN "true" ELSE "false"

\* applyToRange: getAncestorWithClass is reached for the first text node with
\* selected text, after splitBoundaries
applyToRangeResult(d, r) ==
    LET Split(sb) ==
            IF /\ TagNamesTypeError
               /\ \E i \in DOMAIN getNodes(sb.d, sb.r) :
                     rangeSelectsAnyText(sb.d, sb.r, getNodes(sb.d, sb.r)[i])
            THEN [d |-> sb.d, r |-> sb.r, err |-> TRUE]
            ELSE applyToRange(d, r)
    IN  Split(splitBoundaries(d, r))

\* undoToRange: getAncestorWithClass is reached for the first text node,
\* after splitBoundaries
undoToRangeResult(d, r) ==
    LET Split(sb) ==
            IF TagNamesTypeError /\ getNodes(sb.d, sb.r) # <<>>
            THEN [d |-> sb.d, r |-> sb.r, err |-> TRUE]
            ELSE undoToRange(d, r)
    IN  Split(splitBoundaries(d, r))

InitAnyTag ==
    /\ dom \in Documents
    /\ range \in Ranges(dom)
    /\ applier \in AnyTagAppliers
    /\ log = <<>>
    /\ text0 = FlatText(dom)
    /\ dom0 = dom
    /\ probe = NoProbe
    /\ bx = NoBx
    /\ call = NoCall
    /\ sel = NoSel
    /\ commandsByName = NoCommands

AnyTagFrame == UNCHANGED <<applier, text0, dom0, probe, bx, sel, commandsByName>>

ApplyToRangeAnyTag ==
    /\ Running
    /\ Perform(applyToRangeResult(dom, range), "apply")
    /\ UNCHANGED call
    /\ AnyTagFrame

UndoToRangeAnyTag ==
    /\ Running
    /\ Perform(undoToRangeResult(dom, range), "undo")
    /\ UNCHANGED call
    /\ AnyTagFrame

IsAppliedToRangeAnyTag ==
    /\ Running
    /\ call' = [fn |-> "isAppliedToRange", at |-> Len(log) + 1,
                result |-> isAppliedToRangeResult(dom, range)]
    /\ log' = Append(log, IF isAppliedToRangeResult(dom, range) = "TypeError"
                          THEN "throw" ELSE "isApplied")
    /\ UNCHANGED <<dom, range>>
    /\ AnyTagFrame

NextAnyTag == ApplyToRangeAnyTag \/ UndoToRangeAnyTag \/ IsAppliedToRangeAnyTag

SpecAnyTag == InitAnyTag /\ [][NextAnyTag]_vars

(***************************************************************************)
(* Modifiable and simple modifiable elements (rangy-commands.js).  The     *)
(* functions read an element's nodeType, namespaceURI, tagName, the list   *)
(* el.attributes (each attribute with its name and its specified flag) and *)
(* el.style, the declaration block the browser parses from the style       *)
(* attribute.  An element is a record                                      *)
(*   [nodeType, namespaceURI, tagName, attributes, styleAttr, styleLength] *)
(* with styleAttr the declarations written in the style attribute, in      *)
(* order, and styleLength telling whether el.style.length is a number.     *)
(***************************************************************************)
MaxAttrs == 2
MaxStyleProps == 2

UNDEF == "undefined"
XHTML == "http://www.w3.org/1999/xhtml"
NamespaceURIs == {UNDEF, "null", XHTML, "http://www.w3.org/2000/svg"}

\* tagName as the DOM reports it: upper case in an HTML document, as written
\* in an XML document
TagNames == {"B", "STRONG", "I", "SUB", "S", "SPAN", "A", "FONT", "DIV", "span"}

\* String.prototype.toLowerCase on a tag name
tagNameToLowerCase(tagName) ==
    CASE tagName = "B" -> "b"
      [] tagName = "STRONG" -> "strong"
      [] tagName = "I" -> "i"
      [] tagName = "SUB" -> "sub"
      [] tagName = "S" -> "s"
      [] tagName = "SPAN" -> "span"
      [] tagName = "A" -> "a"
      [] tagName = "FONT" -> "font"
      [] tagName = "DIV" -> "div"
      [] OTHER -> tagName

AttributeNames == {"style", "href", "color", "title"}

\* what a style attribute may declare; "foo" is a property no browser knows
StyleDeclarations ==
    { [prop |-> "font-weight", value |-> "bold"],
      [prop |-> "font-style", value |-> "italic"],
      [prop |-> "vertical-align", value |-> "sub"],
      [prop |-> "text-decoration", value |-> "underline"],
      [prop |-> "text-decoration", value |-> "blink"],
      [prop |-> "color", value |-> "red"],
      [prop |-> "foo", value |-> "bar"] }

RecognizedProperties ==
    {"font-weight", "font-style", "vertical-align", "text-decoration", "color"}

\* sequences without a repeated name, of at most max members
DistinctSeqs(S, max, key(_)) ==
    { s \in UNION { [1..n -> S] : n \in 0..max } :
        \A i, j \in DOMAIN s : i # j => key(s[i]) # key(s[j]) }

AttributeLists ==
    LET NameOf(a) == a.name
    IN  DistinctSeqs([name : AttributeNames, specified : BOOLEAN], MaxAttrs, NameOf)

StyleAttrs ==
    LET PropOf(decl) == decl.prop
    IN  DistinctSeqs(StyleDeclarations, MaxStyleProps, PropOf)

\* setting el.style writes the style attribute: declarations need the attribute
HasStyleAttribute(attributes) ==
    \E i \in DOMAIN attributes :
        attributes[i].name = "style" /\ attributes[i].specified

TextNodeInput ==
    [nodeType |-> 3, namespaceURI |-> XHTML, tagName |-> UNDEF,
     attributes |-> <<>>, styleAttr |-> <<>>, styleLength |-> FALSE]

TestNodes ==
    {TextNodeInput} \cup
    { el \in [nodeType : {1}, namespaceURI : NamespaceURIs, tagName : TagNames,
              attributes : AttributeLists, styleAttr : StyleAttrs,
              styleLength : BOOLEAN] :
        el.styleAttr # <<>> => HasStyleAttribute(el.attributes) }

\* el.style: the declarations of the style attribute the browser recognizes
style(el) ==
    LET Recognized(decl) == decl.prop \in RecognizedProperties
    IN  SelectSeq(el.styleAttr, Recognized)

\* el.style.cssText, as the sequence of its tokens: "prop: value;" for each
\* declaration, a blank between declarations
RECURSIVE cssTextFrom(_, _)
cssTextFrom(decls, i) ==
    IF i > Len(decls) THEN <<>>
    ELSE (IF i > 1 THEN <<" ">> ELSE <<>>)
         \o <<decls[i].prop, ":", " ", decls[i].value, ";">>
         \o cssTextFrom(decls, i + 1)

cssText(el) == cssTextFrom(style(el), 1)

\* el.style.fontWeight and the like: the declared value, "" if not declared
StyleProperty(el, prop) ==
    LET declared == { i \in DOMAIN style(el) : style(el)[i].prop = prop }
    IN  IF declared = {} THEN "" ELSE style(el)[CHOOSE i \in declared : TRUE].value

\* /^[a-z\-]+:[^;]+;?$/i
SingleDeclarationRegexTest(text) ==
    /\ Len(text) >= 3
    /\ text[1] \in { decl.prop : decl \in StyleDeclarations }
    /\ text[2] = ":"
    /\ LET last == IF text[Len(text)] = ";" THEN Len(text) - 1 ELSE Len(text)
       IN  /\ last >= 3
           /\ \A i \in 3..last : text[i] # ";"

\* typeof (ns = node.namespaceURI) == UNDEF || (ns === null || ns == XHTML)
isHtmlNode(node) == node.namespaceURI \in {UNDEF, "null", XHTML}

\* dom.arrayContains on an array of attribute names
attrsContain(attrs, attrName) == \E i \in DOMAIN attrs : attrs[i] = attrName

elementOnlyHasAttributes(el, attrs) ==
    \A i \in DOMAIN el.attributes :
        ~(el.attributes[i].specified /\ ~attrsContain(attrs, el.attributes[i].name))

modifiableElements == {"b", "em", "i", "s", "span", "strike", "strong", "sub", "sup", "u"}

isModifiableElement(node) ==
    IF node.nodeType # 1 \/ ~isHtmlNode(node) THEN FALSE
    ELSE LET tagName == tagNameToLowerCase(node.tagName)
         IN  IF tagName \in modifiableElements
                 THEN elementOnlyHasAttributes(node, <<"style">>)
             ELSE IF tagName = "a"
                 THEN elementOnlyHasAttributes(node, <<"style", "href">>)
             ELSE IF tagName = "font"
                 THEN elementOnlyHasAttributes(node, <<"style", "color", "face", "size">>)
             ELSE FALSE

simpleModifiableElements == modifiableElements \cup {"a", "font"}

\* the attribute loop of isSimpleModifiableElement: the name of the one
\* specified attribute, "none" without one, "many" when it quits at a second
RECURSIVE ExtractAttribute(_, _, _)
ExtractAttribute(el, i, attrName) ==
    IF i > Len(el.attributes) THEN attrName
    ELSE IF el.attributes[i].specified
        THEN IF attrName # "none" THEN "many"
             ELSE ExtractAttribute(el, i + 1, el.attributes[i].name)
    ELSE ExtractAttribute(el, i + 1, attrName)

\* the same loop without the early return: the last specified attribute
RECURSIVE ExtractLastAttribute(_, _, _)
ExtractLastAttribute(el, i, attrName) ==
    IF i > Len(el.attributes) THEN attrName
    ELSE IF el.attributes[i].specified
        THEN ExtractLastAttribute(el, i + 1, el.attributes[i].name)
    ELSE ExtractLastAttribute(el, i + 1, attrName)

\* isSimpleModifiableElement once the one attribute is known
SimpleWithAttribute(el, tagName, attrName) ==
    IF attrName = "none" THEN TRUE
    ELSE IF attrName = "style" /\ Len(cssText(el)) = 0 THEN TRUE
    ELSE IF tagName = "a" /\ attrName = "href" THEN TRUE
    ELSE IF tagName = "font" /\ attrName \in {"color", "face", "size"} THEN TRUE
    ELSE IF \/ attrName # "style"
            \/ (el.styleLength /\ Len(style(el)) > 1)
            \/ ~SingleDeclarationRegexTest(cssText(el)) THEN FALSE
    ELSE IF tagName \in {"b", "strong"} /\ StyleProperty(el, "font-weight") # "" THEN TRUE
    ELSE IF tagName \in {"i", "em"} /\ StyleProperty(el, "font-style") # "" THEN TRUE
    ELSE IF tagName \in {"sub", "sup"} /\ StyleProperty(el, "vertical-align") # "" THEN TRUE
    ELSE IF tagName \in {"a", "font", "span"} /\ StyleProperty(el, "text-decoration") = "" THEN TRUE
    ELSE IF /\ tagName \in {"a", "font", "s", "span", "strike", "u"}
            /\ StyleProperty(el, "text-decoration") \in {"line-through", "underline", "overline", "none"}
        THEN TRUE
    ELSE FALSE

isSimpleModifiableElementLastAttr(el) ==
    IF el.nodeType # 1 \/ ~isHtmlNode(el) THEN FALSE
    ELSE LET tagName == tagNameToLowerCase(el.tagName)
         IN  IF tagName \notin simpleModifiableElements THEN FALSE
             ELSE SimpleWithAttribute(el, tagName, ExtractLastAttribute(el, 1, "none"))

isSimpleModifiableElement(el) ==
    IF el.nodeType # 1 \/ ~isHtmlNode(el) THEN FALSE
    ELSE LET tagName == tagNameToLowerCase(el.tagName)
             attrName == ExtractAttribute(el, 1, "none")
         IN  IF tagName \notin simpleModifiableElements THEN FALSE
             ELSE IF attrName = "many" THEN FALSE
             ELSE SimpleWithAttribute(el, tagName, attrName)

InitModifiable ==
    /\ dom \in {d \in Documents : Len(d) = 2}
    /\ range = NoRange
    /\ applier \in {a \in Appliers : a.normalize}
    /\ log = <<>>
    /\ text0 = FlatText(dom)
    /\ dom0 = dom
    /\ probe = NoProbe
    /\ bx = NoBx
    /\ sel = NoSel
    /\ commandsByName = NoCommands
    /\ \E el \in TestNodes : call = [fn |-> "createElement", el |-> el]

ModifiableFrame ==
    UNCHANGED <<dom, range, applier, log, text0, dom0, probe, bx, sel, commandsByName>>

IsModifiableElement ==
    /\ "el" \in DOMAIN call
    /\ call' = [fn |-> "isModifiableElement", el |-> call.el,
                result |-> isModifiableElement(call.el)]
    /\ ModifiableFrame

IsSimpleModifiableElement ==
    /\ "el" \in DOMAIN call
    /\ call' = [fn |-> "isSimpleModifiableElement", el |-> call.el,
                result |-> isSimpleModifiableElement(call.el)]
    /\ ModifiableFrame

NextModifiable == IsModifiableElement \/ IsSimpleModifiableElement

SpecModifiable == InitModifiable /\ [][NextModifiable]_vars

(***************************************************************************)
(* applyToTextNode and undoToTextNode, called on one text node.  The       *)
(* applier is made with tag names, element properties and a callback       *)
(* elementShouldRemoveCallback; call holds the arguments and the tree the  *)
(* call found.  One run calls applyToTextNode on text nodes of a document; *)
(* the other calls undoToTextNode on a document of one child of the root,  *)
(* as it is or after one applyToTextNode.                                  *)
(***************************************************************************)
\* new CssClassApplier(cssClass, {tagNames, elementProperties,
\* elementShouldRemoveCallback}): the option properties the constructor
\* copies, next to what it makes of the tag names
WithOptions(base, properties, shouldRemove) ==
    [elementProperties |-> properties,
     elementShouldRemoveCallback |-> shouldRemove] @@ base

TagNameOptions ==
    { [type |-> "undefined", value |-> <<>>],
      [type |-> "object", value |-> <<"span", "i">>],
      [type |-> "object", value |-> <<"*">>],
      [type |-> "string", value |-> <<"*">>] }

TextNodeAppliers ==
    { WithOptions(CssClassApplier("c", TRUE, tagNames), properties, "null") :
        tagNames \in TagNameOptions,
        properties \in {{}, {"className"}, {"title"}} }

UndoTextNodeAppliers ==
    { WithOptions(CssClassApplier("c", TRUE, o[1]), o[2], o[3]) :
        o \in { t \in {t \in TagNameOptions : "*" \notin Elements(t.value)}
                    \X {{}, {"className"}, {"title"}}
                    \X {"null", "true", "false"} :
                t[3] = "null" \/ t[2] = {} } }

InitTextNode ==
    /\ dom \in SplitDocuments
    /\ range = NoRange
    /\ applier \in TextNodeAppliers
    /\ log = <<>>
    /\ text0 = FlatText(dom)
    /\ dom0 = dom
    /\ probe = NoProbe
    /\ bx = NoBx
    /\ call = NoCall
    /\ sel = NoSel
    /\ commandsByName = NoCommands

TextNodeFrame == UNCHANGED <<applier, text0, dom0, probe, bx, sel, commandsByName>>

\* applyToTextNode(textNode): dom.arrayContains(this.tagNames, ...) is
\* evaluated when the parent has one child, a TypeError when this.tagNames
\* is undefined
ApplyToTextNode ==
    /\ Running
    /\ \E textNode \in {n \in Nodes(dom) : Attached(dom, n) /\ isCharacterDataNode(dom, n)} :
          LET err == /\ Len(dom[dom[textNode].parent].kids) = 1
                     /\ ~applier.tagNamesBound
          IN  /\ dom' = IF err THEN dom ELSE applyToTextNode(dom, textNode)
              /\ log' = Append(log, IF err THEN "throw" ELSE "applyToTextNode")
              /\ call' = [fn |-> "applyToTextNode", textNode |-> textNode,
                          dom |-> dom, err |-> err]
    /\ UNCHANGED range
    /\ TextNodeFrame

\* undoToTextNode(textNode, range, ancestorWithClass), with a range that
\* selects text of the node and the ancestor getAncestorWithClass finds
UndoToTextNode ==
    /\ Running
    /\ applier.tagNamesBound
    /\ \E textNode \in {n \in Nodes(dom) : Attached(dom, n) /\ isCharacterDataNode(dom, n)} :
       \E r \in {x \in Ranges(dom) : Attached(dom, x.sc) /\ Attached(dom, x.ec)} :
          /\ getAncestorWithClass(dom, textNode) # NULL
          /\ rangeSelectsAnyText(dom, r, textNode)
          /\ LET res == undoToTextNode(dom, r, textNode,
                                       getAncestorWithClass(dom, textNode))
             IN  /\ dom' = res.d
                 /\ range' = res.r
                 /\ log' = Append(log, IF res.err THEN "throw" ELSE "undoToTextNode")
                 /\ call' = IF res.err
                            THEN [fn |-> "undoToTextNode", textNode |-> textNode,
                                  dom |-> dom, err |-> TRUE]
                            ELSE [fn |-> "undoToTextNode", textNode |-> textNode,
                                  dom |-> dom, err |-> FALSE,
                                  split |-> res.split, ancestor |-> res.ancestor]
    /\ TextNodeFrame

NextTextNode == ApplyToTextNode

SpecTextNode == InitTextNode /\ [][NextTextNode]_vars

InitUndoTextNode ==
    /\ dom \in {d \in SplitDocuments : Len(d[Root].kids) = 1}
    /\ range = NoRange
    /\ applier \in UndoTextNodeAppliers
    /\ log = <<>>
    /\ text0 = FlatText(dom)
    /\ dom0 = dom
    /\ probe = NoProbe
    /\ bx = NoBx
    /\ call = NoCall
    /\ sel = NoSel
    /\ commandsByName = NoCommands

ApplyToTextNodeFirst == log = <<>> /\ ApplyToTextNode

NextUndoTextNode == ApplyToTextNodeFirst \/ UndoToTextNode

SpecUndoTextNode == InitUndoTextNode /\ [][NextUndoTextNode]_vars

(***************************************************************************)
(* postApply on its own (specification SpecPostApply): applyToRange and    *)
(* undoToRange up to their call of postApply, then the call.               *)
(***************************************************************************)
\* applyToRange up to the call of postApply: the tree, the range and the
\* text nodes it passes
ApplyLoop(d, r) ==
    LET Looped(d1, r0, textNodes) ==
            [d |-> d1,
             r |-> setEnd(d1, setStart(d1, r0, textNodes[1], 0),
                          textNodes[Len(textNodes)],
                          getNodeLength(d1, textNodes[Len(textNodes)])),
             textNodes |-> textNodes, err |-> FALSE]
        Selected(sb, textNodes) ==
            IF textNodes = <<>>
            THEN [d |-> sb.d, r |-> sb.r, textNodes |-> <<>>, err |-> FALSE]
            ELSE Looped(ApplyToTextNodes(sb.d, textNodes, 1), sb.r, textNodes)
        Split(sb) ==
            Selected(sb, SelectSeq(getNodes(sb.d, sb.r),
                                   LAMBDA t : rangeSelectsAnyText(sb.d, sb.r, t)))
    IN  Split(splitBoundaries(d, r))

\* undoToRange up to the call of postApply
UndoLoop(d, r) ==
    LET Selected(sb, textNodes) ==
            UndoToTextNodes([d |-> sb.d, r |-> sb.r, err |-> FALSE], textNodes, 1)
            @@ [textNodes |-> textNodes]
        Split(sb) == Selected(sb, getNodes(sb.d, sb.r))
    IN  Split(splitBoundaries(d, r))

InitPostApply ==
    /\ dom \in Documents
    /\ range \in Ranges(dom)
    /\ applier \in {a \in Appliers : a.normalize}
    /\ log = <<>>
    /\ text0 = FlatText(dom)
    /\ dom0 = dom
    /\ probe = NoProbe
    /\ bx = NoBx
    /\ call = NoCall
    /\ sel = NoSel
    /\ commandsByName = NoCommands

\* in: the tree, the range and the text nodes the caller passes
PostApply(in, isUndo) ==
    /\ log = <<>>
    /\ ~in.err
    /\ in.textNodes # <<>>
    /\ Perform(postApply(in.d, in.r, in.textNodes, isUndo), "postApply")
    /\ call' = [fn |-> "postApply", dom |-> in.d, range |-> in.r,
                textNodes |-> in.textNodes, isUndo |-> isUndo]
    /\ UNCHANGED <<applier, text0, dom0, probe, bx, sel, commandsByName>>

PostApplyOfApply == PostApply(ApplyLoop(dom, range), FALSE)

PostApplyOfUndo == PostApply(UndoLoop(dom, range), TRUE)

NextPostApply == PostApplyOfApply \/ PostApplyOfUndo

SpecPostApply == InitPostApply /\ [][NextPostApply]_vars

(***************************************************************************)
(* applyToRange with ignoreWhiteSpace (specification SpecWhiteSpace).  A   *)
(* whitespace character has a negative code.                               *)
(***************************************************************************)
\* the document with the first character ("first") or every character
\* ("all") of the text nodes in blanked turned into whitespace
WithWhiteSpace(d, blanked, mode) ==
    Arena([n \in DOMAIN d |->
        IF n \in blanked
        THEN [d[n] EXCEPT !.data =
                 [i \in DOMAIN @ |-> IF mode = "all" \/ i = 1 THEN 0 - @[i] ELSE @[i]]]
        ELSE d[n]])

WhiteSpaceDocuments ==
    UNION { {d} \cup
            { WithWhiteSpace(d, {t}, mode) :
                t \in Elements(TextNodesOf(d, Root)), mode \in {"first", "all"} }
            \cup { WithWhiteSpace(d, Elements(TextNodesOf(d, Root)), "all") }
          : d \in Documents }

InitWhiteSpace ==
    /\ dom \in WhiteSpaceDocuments
    /\ range \in Ranges(dom)
    /\ applier \in {[a EXCEPT !.ignoreWhiteSpace = TRUE] : a \in Appliers}
    /\ log = <<>>
    /\ text0 = FlatText(dom)
    /\ dom0 = dom
    /\ probe = NoProbe
    /\ bx = NoBx
    /\ call = NoCall
    /\ sel = NoSel
    /\ commandsByName = NoCommands

\* applyToRange(range); call keeps the tree after splitBoundaries, the text
\* nodes of the loop and the tree after the loop
ApplyToRangeWhiteSpace ==
    /\ log = <<>>
    /\ Perform(applyToRange(dom, range), "apply")
    /\ call' = [fn |-> "applyToRange",
                split |-> splitBoundaries(dom, range).d,
                textNodes |-> ApplyLoop(dom, range).textNodes,
                looped |-> ApplyLoop(dom, range).d]
    /\ UNCHANGED <<applier, text0, dom0, probe, bx, sel, commandsByName>>

NextWhiteSpace == ApplyToRangeWhiteSpace

SpecWhiteSpace == InitWhiteSpace /\ [][NextWhiteSpace]_vars

(***************************************************************************)
(* What the claims speak of.                                               *)
(***************************************************************************)
\* the last operation performed, "" before the first
LastOp == IF log = <<>> THEN "" ELSE log[Len(log)]

\* the step is a call of applyToRange (of undoToRange) that returned
ApplyStep == log' = Append(log, "apply")

UndoStep == log' = Append(log, "undo")

AttachedTextNodes(d) ==
    {n \in Nodes(d) : Attached(d, n) /\ isCharacterDataNode(d, n)}

\* the characters between the start and the end of the range, in document
\* order
RECURSIVE SelectedFrom(_, _, _, _)
SelectedFrom(d, r, ns, i) ==
    IF i > Len(ns) THEN <<>>
    ELSE getTextSelectedByRange(d, ns[i], r) \o SelectedFrom(d, r, ns, i + 1)

SelectedText(d, r) ==
    IF collapsed(r) THEN <<>> ELSE SelectedFrom(d, r, TextNodesOf(d, Root), 1)

\* the characters of the text nodes that have an ancestor with the class
AppliedChars(d) ==
    UNION {{d[t].data[i] : i \in DOMAIN d[t].data} :
             t \in {n \in AttachedTextNodes(d) : getAncestorWithClass(d, n) # NULL}}

\* every text node the range selects text of has an ancestor with the class
SelectedTextApplied(d, r) ==
    \A t \in AttachedTextNodes(d) :
        rangeSelectsAnyText(d, r, t) => getAncestorWithClass(d, t) # NULL

\* no text node the range selects text of has an ancestor with the class
SelectedTextUnapplied(d, r) ==
    \A t \in AttachedTextNodes(d) :
        rangeSelectsAnyText(d, r, t) => getAncestorWithClass(d, t) = NULL

AttachedElements(d) == {n \in Nodes(d) : Attached(d, n) /\ IsElement(d, n)}

ElementCount(d) == Cardinality(AttachedElements(d))

\* the class name of every element of the tree
ClassNames(d) == {<<n, d[n].className>> : n \in AttachedElements(d)}

\* the range is collapsed or effectively contains no text node
NothingContained(d, r) ==
    collapsed(r) \/ \A t \in AttachedTextNodes(d) : ~EffectivelyContained(d, t, r)

(***************************************************************************)
(* The class applier on a range (specification Spec).                      *)
(***************************************************************************)
\* C1: after applyToRange(R) followed by undoToRange(R) the flattened text
\* of the document is what it was before the apply.
C1_RoundTripText == log = <<"apply", "undo">> => FlatText(dom) = text0

C3_UnappliedAfterUndo ==
    (log = <<"apply", "undo">> /\ SelectedText(dom, range) # <<>>)
        => (~isAppliedToRange(dom, range) /\ SelectedTextUnapplied(dom, range))

\* C4: a second applyToRange(R) right after the first leaves the flattened
\* text and the set of characters that have an ancestor with the class as the
\* first left them, and adds no element to the document.
C4_ApplyIdempotent ==
    [][(LastOp = "apply" /\ ApplyStep)
        => /\ FlatText(dom') = FlatText(dom)
           /\ AppliedChars(dom') = AppliedChars(dom)
           /\ AttachedElements(dom') \subseteq AttachedElements(dom)]_vars

\* C5: on a range that is collapsed or effectively contains no text node,
\* isAppliedToRange is true, applyToRange creates no element and changes
\* neither the text nor what carries the class, undoToRange leaves the
\* boundaries of the range (and the class carriers) as they are, and neither
\* throws.
C5_VacuousSuccess ==
    [][NothingContained(dom, range)
        => /\ isAppliedToRange(dom, range)
           /\ log' # Append(log, "throw")
           /\ ApplyStep => /\ ElementCount(dom') = ElementCount(dom)
                           /\ ClassNames(dom') = ClassNames(dom)
                           /\ FlatText(dom') = FlatText(dom)
           /\ UndoStep => /\ range' = range
                          /\ ClassNames(dom') = ClassNames(dom)
                          /\ ElementCount(dom') = ElementCount(dom)]_vars

\* C5: an undo returned for a collapsed range in a document some text of
\* which carries the class.
C5_Witness ==
    /\ log = <<"undo">>
    /\ collapsed(range)
    /\ AppliedChars(dom) # {}

C7_IsContained ==
    probe.fn = "isContained"
        => probe.result = (IF Contained(dom, probe.node, range)
                           THEN "true" ELSE "false")

\* C8: isEffectivelyContained(node, range) returns true when node is
\* contained, or is the start node, a text node of a length other than the
\* start offset, or is the end node, a text node, the end offset not 0, or
\* has a child and all its children are effectively contained, and returns
\* false otherwise.
C8_IsEffectivelyContained ==
    probe.fn = "isEffectivelyContained"
        => probe.result = (IF EffectivelyContained(dom, probe.node, range)
                           THEN "true" ELSE "false")

(***************************************************************************)
(* blockExtend (specification SpecBlock).                                  *)
(***************************************************************************)
\* C9: blockExtend of a range that blockExtend returned returns, and
\* returns a range of the same start and end node and offset.
C9_FixedPoint ==
    bx.round = 2
        => /\ bx.pc # "TypeError"
           /\ bx.pc = "done" => bx.result = bx.first

\* C9: the second blockExtend returned, and the first had widened the range.
C9_Witness ==
    /\ bx.round = 2
    /\ bx.pc = "done"
    /\ bx.first # range

\* C10: an iteration of a loop moves the node of the loop to its parent or
\* moves the offset by one, and the node never becomes null (the parent of
\* the root).
C10_StopsAtRoot ==
    [][/\ bx.pc = "start" /\ bx'.pc = "start"
          => /\ bx'.startNode # NULL
             /\ \/ bx'.startNode = dom[bx.startNode].parent
                \/ bx'.startNode = bx.startNode
                   /\ bx'.startOffset = bx.startOffset - 1
       /\ bx.pc = "end" /\ bx'.pc = "end"
          => /\ bx'.endNode # NULL
             /\ \/ bx'.endNode = dom[bx.endNode].parent
                \/ bx'.endNode = bx.endNode
                   /\ bx'.endOffset = bx.endOffset + 1]_vars

\* the boundary point the rules of movePreservingRanges give for the point
\* (c, o) of the range before the call: a point in the moved subtree stays;
\* at the new parent after the new index, one more; at the old parent at the
\* old index or one past it, the new parent and newIndex - oldIndex more; at
\* the old parent further on, one less
MovedPoint(c, o) ==
    IF isOrIsAncestorOf(dom, call.node, c) THEN <<c, o>>
    ELSE <<IF c = call.oldParent /\ o \in {call.oldIndex, call.oldIndex + 1}
           THEN call.newParent ELSE c,
           o + (IF c = call.newParent /\ o > call.newIndex THEN 1 ELSE 0)
             + (IF c = call.oldParent /\ o \in {call.oldIndex, call.oldIndex + 1}
                THEN call.newIndex - call.oldIndex ELSE 0)
             - (IF c = call.oldParent /\ o > call.oldIndex + 1 THEN 1 ELSE 0)>>

\* C11: after movePreservingRanges the node is the child of newParent at
\* index newIndex, and each boundary point of the range is the point the
\* rules give for the boundary point it was before the call.
C11_MovePreservingRanges ==
    call.fn = "movePreservingRanges"
        => /\ ~call.err
           /\ dom[call.node].parent = call.newParent
           /\ getNodeIndex(dom, call.node) = call.newIndex
           /\ <<range.sc, range.so>> = MovedPoint(call.range.sc, call.range.so)
           /\ <<range.ec, range.eo>> = MovedPoint(call.range.ec, call.range.eo)

\* the text of the subtree of n
SubtreeText(d, n) == Concat(d, TextNodesOf(d, n), 1)

\* the nodes the call created
CreatedNodes == Nodes(dom) \ Nodes(call.dom)

\* the element of the tree before the call that the created element c was
\* cloned from: the one on the way from the element down to the point that
\* is as deep in the tree as c
OriginalOf(c) ==
    CHOOSE o \in Nodes(call.dom) :
        /\ isOrIsAncestorOf(call.dom, call.node, o)
        /\ isOrIsAncestorOf(call.dom, o, call.descendantNode)
        /\ Len(AncestorsOf(call.dom, o)) = Len(AncestorsOf(dom, c))

C13_DecreasingOrder ==
    /\ \A k \in 1..(Len(sel.order) - 1) : sel.order[k] > sel.order[k + 1]
    /\ Len(sel.added) = Len(sel.order)
    /\ \A k \in DOMAIN sel.order : sel.added[k] = sel.ranges[sel.order[k] + 1]

LastCall == log[Len(log)]

\* C15: registerCommand with an object that is no Command throws, and
\* getCommand answers for every name what it answered before the call.
C15_RegisterRejects ==
    [][(RegisterCommand /\ LastCall'.command \notin Commands)
        => /\ LastCall'.result = "Error"
           /\ \A name \in Names :
                 getCommand(commandsByName', name) = getCommand(commandsByName, name)]_vars

\* C15: a rejected registration under a name that holds a command, followed
\* by a lookup of that name.
C15_Witness ==
    /\ Len(log) = 3
    /\ log[1].fn = "registerCommand" /\ log[1].result = "undefined"
    /\ log[2].fn = "registerCommand" /\ log[2].result = "Error"
    /\ log[2].name = log[1].name
    /\ log[3].fn = "getCommand" /\ log[3].name = log[1].name
    /\ log[3].result = log[1].command

\* the two names are equal when letter case is ignored
EqualIgnoringCase(a, b) ==
    /\ Len(a) = Len(b)
    /\ \A i \in DOMAIN a :
          \/ a[i] = b[i]
          \/ {a[i], b[i]} = {"a", "A"}

\* the successful registrations, so far, under a name equal to name when
\* case is ignored: their positions in the list of calls
RegistrationsOf(name) ==
    {k \in 1..(Len(log) - 1) : /\ log[k].fn = "registerCommand"
                               /\ log[k].result = "undefined"
                               /\ EqualIgnoringCase(log[k].name, name)}

\* the greatest member of a non-empty set of numbers
Latest(ks) == CHOOSE k \in ks : \A j \in ks : j <= k

\* C16: getCommand answers the command registered last under a name equal to
\* the name when case is ignored, and throws exactly when there is none.
C16_GetCommand ==
    (log # <<>> /\ LastCall.fn = "getCommand")
        => LastCall.result
             = IF RegistrationsOf(LastCall.name) = {} THEN "Error"
               ELSE log[Latest(RegistrationsOf(LastCall.name))].command

\* the characters the range selects
SelectedChars(d, r) == {SelectedText(d, r)[i] : i \in DOMAIN SelectedText(d, r)}

\* C17: undoToRange(R) leaves every character outside R that has an ancestor
\* with the class with such an ancestor.
C17_UndoFrame ==
    [][UndoToRange
        => (AppliedChars(dom) \ SelectedChars(dom, range)) \subseteq AppliedChars(dom')]_vars

\* the elements of the document before the first operation
ElementsBefore == {n \in Nodes(dom0) : IsElement(dom0, n)}

\* C18: after applyToRange(R) followed by undoToRange(R) the elements of the
\* tree are the elements it had before the apply: each of those is still in
\* the tree, and no element created since is.
C18_UndoRemovesCreated ==
    log = <<"apply", "undo">> => AttachedElements(dom) = ElementsBefore

\* some ancestor element of the text node, of whatever tag, has the class
AnyTagAncestorWithClass(d, textNode) ==
    \E a \in Nodes(d) : /\ isAncestorOf(d, a, textNode)
                        /\ IsElement(d, a)
                        /\ hasClass(d, a, applier.cssClass)

\* C19: with an applier made for the tag names "*", apply, undo and
\* isAppliedToRange complete, and isAppliedToRange is true exactly when every
\* text node the range selects text of has an ancestor element of any tag
\* that carries the class.
C19_AnyTagName ==
    /\ ~Thrown
    /\ (call.fn = "isAppliedToRange" /\ call.at = Len(log))
          => call.result
               = IF \A t \in AttachedTextNodes(dom) :
                        rangeSelectsAnyText(dom, range, t)
                           => AnyTagAncestorWithClass(dom, t)
                 THEN "true" ELSE "false"

\* the number of specified attributes of an element
SpecifiedCount(el) ==
    Cardinality({ i \in DOMAIN el.attributes : el.attributes[i].specified })

AllowedTag(tag) == applier.applyToAnyTagName \/ tag \in applier.tagNames

\* the tree differs from d0 in the nodes of changed alone
SameExcept(d0, d1, changed) ==
    \A n \in Nodes(d0) \ changed : d1[n] = d0[n]

\* C21: applyToTextNode(node) adds the class to the parent and creates no
\* element when node is the only child of its parent and the parent's tag is
\* an allowed one; otherwise it inserts exactly one new wrapper element
\* (configured tag, configured properties, then the class) at the position
\* of the text node, which becomes its only child.
C21_ApplyToTextNode ==
    call.fn = "applyToTextNode"
        => LET d0      == call.dom
               node    == call.textNode
               parent  == d0[node].parent
               wrapper == Len(d0) + 1
           IN  /\ ~call.err
               /\ IF Len(d0[parent].kids) = 1 /\ AllowedTag(d0[parent].tag)
                  THEN /\ Len(dom) = Len(d0)
                       /\ hasClass(dom, parent, applier.cssClass)
                       /\ hasClass(dom, parent, "x") = hasClass(d0, parent, "x")
                       /\ [dom[parent] EXCEPT !.className = <<>>, !.classAttr = TRUE]
                            = [d0[parent] EXCEPT !.className = <<>>, !.classAttr = TRUE]
                       /\ SameExcept(d0, dom, {parent})
                  ELSE /\ Len(dom) = Len(d0) + 1
                       /\ dom[wrapper] =
                            [ElementNode(parent, applier.elementTagName) EXCEPT
                               !.kids = <<node>>,
                               !.classAttr = TRUE,
                               !.className =
                                   IF "className" \in elementProperties
                                   THEN PropertyValue("className")
                                        \o <<" ", applier.cssClass>>
                                   ELSE <<applier.cssClass>>,
                               !.attrs = elementProperties \ {"className"}]
                       /\ dom[node] = [d0[node] EXCEPT !.parent = wrapper]
                       /\ dom[parent] =
                            [d0[parent] EXCEPT !.kids =
                                [i \in DOMAIN @ |-> IF @[i] = node THEN wrapper ELSE @[i]]]
                       /\ SameExcept(d0, dom, {parent, node})

\* el is out of the tree and its children stand in its place, in order;
\* every other node is as it was
Unwrapped(d0, d1, el) ==
    LET parent == d0[el].parent
        k      == Pos(d0[parent].kids, el)
    IN  /\ d1[el].kind = "gone"
        /\ d1[parent] = [d0[parent] EXCEPT !.kids =
                            SubSeq(@, 1, k - 1) \o d0[el].kids \o SubSeq(@, k + 1, Len(@))]
        /\ \A n \in Elements(d0[el].kids) : d1[n] = [d0[n] EXCEPT !.parent = parent]
        /\ SameExcept(d0, d1, {el, parent} \cup Elements(d0[el].kids))
        /\ Len(d1) = Len(d0)

\* el is where it was with the class cssClass taken off its class name and
\* nothing else changed; every other node is as it was
Stripped(d0, d1, el, cssClass) ==
    /\ [d1[el] EXCEPT !.className = <<>>] = [d0[el] EXCEPT !.className = <<>>]
    /\ ~hasClass(d1, el, cssClass)
    /\ hasClass(d1, el, "x") = hasClass(d0, el, "x")
    /\ SameExcept(d0, d1, {el})
    /\ Len(d1) = Len(d0)

\* the four conditions on an element: the wrapper tag, the class names of
\* a new wrapper in sorted order, every configured property at its
\* configured value, and no attribute besides the configured ones and the
\* class
MatchesWrapper(d, el) ==
    /\ d[el].tag = applier.elementTagName
    /\ SortNames(SplitBlanks(d[el].className, 1, <<>>))
         = SortNames(SplitBlanks(
               IF "className" \in elementProperties
               THEN PropertyValue("className") \o <<" ", applier.cssClass>>
               ELSE <<applier.cssClass>>, 1, <<>>))
    /\ \A p \in elementProperties \ {"className"} : p \in d[el].attrs
    /\ "className" \in elementProperties
          => d[el].className = PropertyValue("className")
    /\ d[el].attrs \subseteq elementProperties
    /\ d[el].id = 0

UndoToTextNodeDone == call.fn = "undoToTextNode" /\ ~call.err

\* C22 as stated: undoToTextNode replaces the (possibly split) ancestor by
\* its own children iff the ancestor matches what the applier would have
\* produced or the caller's callback says so; otherwise the element stays
\* and only the class is stripped from it.
C22_UnwrapIffMatchOrCallback ==
    UndoToTextNodeDone =>
        IF \/ MatchesWrapper(call.split, call.ancestor)
           \/ elementShouldRemoveCallback = "true"
        THEN Unwrapped(call.split, dom, call.ancestor)
        ELSE Stripped(call.split, dom, call.ancestor, applier.cssClass)

\* C22, amended: undoToTextNode replaces the (possibly split) ancestor by its
\* own children iff isRemovable holds for it, which is the answer of the
\* caller's callback alone when one is configured and otherwise that the
\* ancestor matches what the applier would have produced; otherwise the
\* element stays and only the class is stripped from it.
C22_UnwrapIffRemovable ==
    UndoToTextNodeDone =>
        IF (IF elementShouldRemoveCallback # "null"
            THEN elementShouldRemoveCallback = "true"
            ELSE MatchesWrapper(call.split, call.ancestor))
        THEN Unwrapped(call.split, dom, call.ancestor)
        ELSE Stripped(call.split, dom, call.ancestor, applier.cssClass)

\* an ancestor that was split is unwrapped, and one that no callback spoke
\* for stays for an attribute of its own
C22_Witness ==
    /\ UndoToTextNodeDone
    /\ Len(call.split) > Len(call.dom)
    /\ elementShouldRemoveCallback = "null"
    /\ MatchesWrapper(call.split, call.ancestor)
    /\ dom[call.ancestor].kind = "gone"

\* the number of characters before the point (n, o) of the text node n
CharsBefore(d, n, o) ==
    LET ts == TextNodesOf(d, Root)
    IN  SumLengths(d, SubSeq(ts, 1, Pos(ts, n) - 1), 1) + o

\* the nodes of the tree d0 that are no longer in the tree d1
Deleted(d0, d1) == {n \in Nodes(d0) : Attached(d0, n) /\ ~Attached(d1, n)}

\* the text nodes postApply may merge: those it was given and the text node
\* next before the first and next after the last of them in document order
MergeCandidates(d, textNodes) ==
    LET ts == TextNodesOf(d, Root)
        i  == Pos(ts, textNodes[1])
        j  == Pos(ts, textNodes[Len(textNodes)])
    IN  Elements(SubSeq(ts, (IF i > 1 THEN i - 1 ELSE i),
                            (IF j < Len(ts) THEN j + 1 ELSE j)))

\* the merges concatenate: the text of the tree is what it was
C23_TextKept == call.fn = "postApply" => FlatText(dom) = FlatText(call.dom)

\* only merged text nodes and wrappers left childless are deleted
C23_DeletedOnly ==
    call.fn = "postApply" =>
        \A n \in Deleted(call.dom, dom) :
            IF isCharacterDataNode(call.dom, n)
            THEN n \in MergeCandidates(call.dom, call.textNodes)
            ELSE /\ call.dom[n].kids # <<>>
                 /\ Elements(call.dom[n].kids) \subseteq Deleted(call.dom, dom)
                 /\ \A k \in Elements(call.dom[n].kids) :
                        isCharacterDataNode(call.dom, k)

\* the range starts where the first text node began and ends where the last
\* one ended
C23_RangeKept ==
    call.fn = "postApply" =>
        LET first == call.textNodes[1]
            last  == call.textNodes[Len(call.textNodes)]
        IN  /\ isCharacterDataNode(dom, range.sc) /\ Attached(dom, range.sc)
            /\ isCharacterDataNode(dom, range.ec) /\ Attached(dom, range.ec)
            /\ CharsBefore(dom, range.sc, range.so) = CharsBefore(call.dom, first, 0)
            /\ CharsBefore(dom, range.ec, range.eo)
                 = CharsBefore(call.dom, last, Len(call.dom[last].data))

\* a text node that was given and is still there has no text node as its
\* previous sibling: it would have been merged into it
C23_RunsMerged ==
    call.fn = "postApply" =>
        \A i \in DOMAIN call.textNodes :
            LET n == call.textNodes[i]
            IN  Attached(dom, n) /\ previousSibling(dom, n) # NULL
                    => ~isCharacterDataNode(dom, previousSibling(dom, n))

\* C23: postApply groups the text nodes it is given, with one mergeable
\* neighbour before the first and after the last, into runs of contiguous
\* mergeable text nodes, concatenates each run into its first member and
\* deletes the rest together with any wrapper left childless; afterwards
\* the range starts and ends in the merged text nodes at the offsets where
\* the first given text began and the last given text ended.
C23_PostApply ==
    /\ C23_TextKept
    /\ C23_DeletedOnly
    /\ C23_RangeKept
    /\ C23_RunsMerged

\* the text nodes of the loop of applyToRange that are not whitespace-only
\* and have no ancestor with the class when the loop starts
ToApply(d, textNodes) ==
    {t \in Elements(textNodes) :
        ~isWhiteSpaceNode(d, t) /\ getAncestorWithClass(d, t) = NULL}

\* applyToTextNode was called for t: its parent has the class, and is either
\* its old parent with the class added or a new element in between
AppliedTo(d0, d1, t) ==
    LET p0 == d0[t].parent
        p1 == d1[t].parent
    IN  /\ hasClass(d1, p1, applier.cssClass)
        /\ \/ p1 = p0 /\ ~hasClass(d0, p0, applier.cssClass)
           \/ p1 \notin Nodes(d0) /\ d1[p1].parent = p0 /\ d1[p1].kids = <<t>>

\* t got no wrapper and no class change: its parent and the class names of
\* all its ancestors are what they were
LeftAlone(d0, d1, t) ==
    /\ d1[t].parent = d0[t].parent
    /\ \A a \in Elements(AncestorsOf(d0, t)) : d1[a].className = d0[a].className

\* C24: with the ignore-whitespace flag set, applyToRange calls
\* applyToTextNode for exactly the selected text nodes that are not
\* whitespace-only and have no class-carrying ancestor yet; whitespace-only
\* and already covered text nodes get no wrapper and no class change.
C24_IgnoreWhiteSpace ==
    (call.fn = "applyToRange" /\ applier.ignoreWhiteSpace) =>
        LET d0 == call.split
            d1 == call.looped
            called == ToApply(d0, call.textNodes)
        IN  /\ \A t \in called : AppliedTo(d0, d1, t)
            /\ \A t \in Elements(call.textNodes) \ called : LeftAlone(d0, d1, t)
            /\ Len(d1) - Len(d0)
                 = Cardinality({t \in called : d1[t].parent # d0[t].parent})
            /\ \A e \in Nodes(d0) :
                   d1[e].className # d0[e].className
                       => \E t \in called : d0[t].parent = e

\* a range selects a whitespace-only text node, which is left alone, and
\* another text node, which gets the class
C24_Witness ==
    /\ call.fn = "applyToRange" /\ applier.ignoreWhiteSpace
    /\ \E t \in Elements(call.textNodes) :
          /\ isWhiteSpaceNode(call.split, t)
          /\ getAncestorWithClass(call.split, t) = NULL
          /\ LeftAlone(call.split, call.looped, t)
    /\ \E t \in ToApply(call.split, call.textNodes) :
          AppliedTo(call.split, call.looped, t)

\* isEffectivelyContained was called with a childless node that isContained
\* answers false for
ChildlessNotContained ==
    /\ probe.fn = "isEffectivelyContained"
    /\ dom[probe.node].kids = <<>>
    /\ isContained(dom, probe.node, range) = "false"

\* the node is a text node in which the range starts before its end, or in
\* which the range ends after its start
BoundaryText(d, node, r) ==
    /\ isCharacterDataNode(d, node)
    /\ \/ node = r.sc /\ r.so # Len(d[node].data)
       \/ node = r.ec /\ r.eo # 0

C26_TextConserved == ~Thrown => FlatText(dom) = text0

\* the ancestors of n that are elements of an allowed tag with the class
ClassAncestors(d, n) ==
    {a \in Elements(AncestorsOf(d, n)) :
        IsElement(d, a) /\ d[a].tag \in applier.tagNames
                        /\ hasClass(d, a, applier.cssClass)}

\* no element of an allowed tag with the class has another one as ancestor
NoNestedElements(d) ==
    \A e \in AttachedElements(d) :
        (d[e].tag \in applier.tagNames /\ hasClass(d, e, applier.cssClass))
            => ClassAncestors(d, e) = {}

\* no text node has two ancestors with the class
NoNesting(d) ==
    \A t \in AttachedTextNodes(d) : Cardinality(ClassAncestors(d, t)) <= 1

OnlyApplyAndUndo == \A i \in DOMAIN log : log[i] \in {"apply", "undo"}

\* C27: starting from a tree in which no element of an allowed tag with the
\* class has another such element as ancestor, applyToRange and undoToRange
\* calls of the applier keep that, and no text node ever has two ancestors
\* with the class.
C27_NoNesting ==
    (NoNestedElements(dom0) /\ OnlyApplyAndUndo)
        => (NoNestedElements(dom) /\ NoNesting(dom))

\* an apply and an undo were made on a tree without nesting that had text
\* with the class, and text with the class is left
C27_Witness ==
    /\ NoNestedElements(dom0)
    /\ AppliedChars(dom0) # {}
    /\ log = <<"apply", "undo">>
    /\ dom # dom0
    /\ AppliedChars(dom) # {}

\* C28: movePreservingRanges called with a valid range and a legal move,
\* also one within the same parent, returns and leaves the range valid in
\* the tree after the move: both offsets are within 0..length of their nodes
\* and the start is not after the end.
C28_RangeValidAfterMove ==
    call.fn = "movePreservingRanges"
        => /\ ~call.err
           /\ Attached(dom, range.sc) /\ Attached(dom, range.ec)
           /\ ValidRange(dom, range)

\* blockExtend returned for the range R (the variable range)
BlockExtendReturned == bx.round = 1 /\ bx.pc = "done"

\* the point after the element, and so on upward, for a point at the end of
\* an element that has children; any other point itself
RECURSIVE PastEnds(_, _, _)
PastEnds(d, n, o) ==
    IF /\ IsElement(d, n) /\ o # 0 /\ o = Len(d[n].kids) /\ d[n].parent # NULL
    THEN PastEnds(d, d[n].parent, 1 + getNodeIndex(d, n))
    ELSE <<n, o>>

\* the point before the node, and so on upward, for a point at offset 0 of
\* a node; any other point itself
RECURSIVE BeforeStarts(_, _, _)
BeforeStarts(d, n, o) ==
    IF o = 0 /\ d[n].parent # NULL
    THEN BeforeStarts(d, d[n].parent, getNodeIndex(d, n))
    ELSE <<n, o>>

SelectionDone == sel.pc = "done"

\* C30: after applyToSelection or undoToSelection returns, the selection
\* (emptied by removeAllRanges, then filled by the addRange calls) holds each
\* range object of the original list exactly once and no other range: as
\* many ranges as before.
C30_SelectionMembership ==
    SelectionDone =>
        /\ Len(sel.added) = Len(sel.ranges)
        /\ Len(sel.order) = Len(sel.added)
        /\ \A i \in DOMAIN sel.ranges :
              Cardinality({k \in DOMAIN sel.order : sel.order[k] = i - 1}) = 1
        /\ \A k \in DOMAIN sel.added : sel.added[k] = sel.ranges[sel.order[k] + 1]

\* a call on a selection of two ranges returned and changed the document
C30_Witness ==
    /\ SelectionDone
    /\ Len(sel.ranges) = 2
    /\ dom # dom0

=============================================================================
